---------------------------- MODULE Spec2Model ----------------------------
(***************************************************************************)
(* Verification model of senobi-tools-rs: the Yaz0 decompressor            *)
(* (crates/library/src/yaz0/mod.rs) and the BYML reader and writer         *)
(* (crates/library/src/byml).                                              *)
(***************************************************************************)
EXTENDS Integers, Sequences, FiniteSets, TLC

(***************************************************************************)
(* Bounds of the model.                                                    *)
(***************************************************************************)
\* Longest Yaz0 body (bytes after the 16-byte header) a stream may hold.
MaxInput == 5
\* Largest declared uncompressed size: a literal followed by the shortest
\* long-form copy (18 bytes) fits exactly.
MaxDecomp == 19

\* Longest array and largest dictionary handed to the BYML writer.
MaxArrayLen == 4

MaxDictLen == 3

\* Bytes the Yaz0 stream is drawn from: group bytes (among them the
\* all-literal 0xFF), the literals 'A'..'D' and back-reference bytes with
\* distinct high and low nibbles.
ByteSet == {0, 1, 16, 65, 66, 67, 68, 128, 238, 255}

\* Declared uncompressed sizes.
DeclSizes == {0, 1, 4, MaxDecomp}

VARIABLES
  \* ---- yaz0::decompress ----
  pc,               \* "start" | "loop" | "done"
  result,           \* "none" | "Ok" | an error variant | "panic"
  overflow_checks,  \* build profile: TRUE (debug) panics on integer overflow
  header,           \* the 16 header bytes read from the stream
  input,            \* body bytes consumed from the reader so far
  decomp_size,
  capacity,         \* decomp_data.capacity()
  decomp_data,
  groups,           \* [value, remaining]
  read_buffer,      \* [u8; 3]
  token,            \* locals of the last loop iteration
  output,           \* the Result's payload: [returned, bytes]
  \* ---- byml writer and reader ----
  stage,            \* "idle" | "new" | "tree" | "written" | "cloned" | "open"
                    \* | "search" | "closed"
  writer_container, \* BymlWriter::container, the root of the tree
  byte_order,       \* the type parameter O of write::<O>
  reader_order,     \* the type parameter O of BymlReader::<O>
  native_order,     \* byte order of the machine running the writer
  format_version,   \* Version::V2 | Version::V3
  buffer,           \* the bytes written, then handed to BymlReader::new
  edited,           \* the bytes were changed between writing and reading
  cur,              \* the reader container in hand
  wcur,             \* the writer node cur was written from
  probe,            \* the index or key last asked of cur
  res,              \* what the last new / get_element returned
  search,           \* locals of get_entry_by_key_bytes
  \* ---- byml writer: write on a tree at the limits of u32 ----
  plan,             \* the locals of write, sizes in 4-byte words
  \* ---- BymlWriter::new, and a second writer on a clone of the tree ----
  stack,            \* the containers still to visit
  containers,       \* BymlWriter::containers
  hash_order,       \* the order in which `containers` is iterated
  clone_buffer      \* the bytes written from a clone of the tree

yaz0Vars == <<pc, result, overflow_checks, header, input, decomp_size,
              capacity, decomp_data, groups, read_buffer, token, output>>

docVars == <<stage, writer_container, byte_order, reader_order, native_order,
             format_version, buffer, edited, cur, wcur, probe, res, search,
             stack, containers, hash_order, clone_buffer>>

bymlVars == <<docVars, plan>>

vars == <<yaz0Vars, bymlVars>>

(***************************************************************************)
(* Byte helpers.                                                           *)
(***************************************************************************)
Byte == 0..255

\* big_endian::U32::get
U32BE(b) == ((b[1] * 256 + b[2]) * 256 + b[3]) * 256 + b[4]

\* The bytes of a big-endian u32.
BytesBE(n) == << (n \div 16777216) % 256, (n \div 65536) % 256,
                 (n \div 256) % 256, n % 256 >>

Yaz0Magic == <<89, 97, 122, 48>>

\* A stream header as it lies in the file: magic, size, 8 unused bytes.
HeaderBytes(magic, size) == magic \o BytesBE(size) \o <<0, 0, 0, 0, 0, 0, 0, 0>>

(***************************************************************************)
(* yaz0: bitfields and the group register.                                 *)
(***************************************************************************)
\* Mutation of ShortCopy: the fields packed from the most significant bit.
ShortCopyMsbFirst(b) ==
  [lookback_upper |-> b[1] \div 16,
   copy_count     |-> b[1] % 16,
   lookback_lower |-> b[2]]

\* #[bitfield(bits = 16)] struct ShortCopy: fields are packed from the least
\* significant bit of the first byte.
ShortCopy(b) ==
  [lookback_upper |-> b[1] % 16,
   copy_count     |-> b[1] \div 16,
   lookback_lower |-> b[2]]

\* #[bitfield(bits = 24)] struct LongCopy.
LongCopy(b) ==
  [lookback_upper |-> b[1] % 16,
   zero           |-> b[1] \div 16,
   lookback_lower |-> b[2],
   copy_count     |-> b[3]]

\* u8 + u8: panics under overflow checks, wraps otherwise.
AddU8(a, b, checks) ==
  IF a + b > 255
    THEN (IF checks THEN [panic |-> TRUE, value |-> 0]
                    ELSE [panic |-> FALSE, value |-> (a + b) % 256])
    ELSE [panic |-> FALSE, value |-> a + b]

\* Groups::empty
GroupsEmpty == [value |-> 0, remaining |-> 0]

\* Mutation of GroupsPop: the bits of a group taken least significant first.
GroupsPopLsbFirst(g) ==
  [group  |-> IF g.value % 2 # 0 THEN "Uncompressed" ELSE "Copy",
   groups |-> [value     |-> g.value \div 2,
               remaining |-> IF g.remaining = 0 THEN 0 ELSE g.remaining - 1]]

\* Groups::pop on a non-empty register.
GroupsPop(g) ==
  [group  |-> IF (g.value \div 128) % 2 # 0 THEN "Uncompressed" ELSE "Copy",
   groups |-> [value     |-> (g.value * 2) % 256,
               remaining |-> IF g.remaining = 0 THEN 0 ELSE g.remaining - 1]]

\* Groups::refill_and_pop
GroupsRefillAndPop(value) == GroupsPop([value |-> value, remaining |-> 8])

\* reader.read_exact of n bytes after `consumed`: end of stream, or n bytes.
ReadExact(consumed, n) ==
  {[ok |-> FALSE, bytes |-> <<>>, input |-> consumed]}
  \cup
  (IF Len(consumed) + n <= MaxInput
     THEN {[ok |-> TRUE, bytes |-> s, input |-> consumed \o s] :
             s \in [1..n -> ByteSet]}
     ELSE {})

\* The head of one loop iteration: groups.pop(), or a group byte read and
\* refill_and_pop.
FetchGroup ==
  IF groups.remaining # 0
    THEN {[ok |-> TRUE, refilled |-> FALSE, pop |-> GroupsPop(groups),
           input |-> input, rb |-> read_buffer]}
    ELSE {[ok |-> r.ok, refilled |-> TRUE,
           pop |-> IF r.ok THEN GroupsRefillAndPop(r.bytes[1])
                           ELSE [group |-> "none", groups |-> groups],
           input |-> r.input,
           rb |-> IF r.ok THEN [read_buffer EXCEPT ![1] = r.bytes[1]]
                          ELSE read_buffer] :
            r \in ReadExact(input, 1)}

NoOutput == [returned |-> FALSE, bytes |-> <<>>]

NoToken ==
  [kind |-> "none", form |-> "none", refilled |-> FALSE, before |-> 0,
   copy_count |-> -1, lookback_distance |-> -1, start |-> -1]

\* decomp_data.extend(repeat_n(0, n)); decomp_data.copy_within(start..start+n, dest):
\* a block move whose source is the buffer as it was after the extension.
Zeros(n) == [i \in 1..n |-> 0]

CopyWithin(data, start, n, dest) ==
  [i \in 1..Len(data) |->
     IF i > dest /\ i <= dest + n THEN data[start + (i - dest)] ELSE data[i]]

ExtendAndCopy(data, start, n) ==
  CopyWithin(data \o Zeros(n), start, n, Len(data))

\* Mutation of PastEnd: the copy count left out of the comparison.
PastEndIgnoringCount(len, copy_count, cap) == ~(len <= cap)

\* ensure!(len.saturating_add(copy_count) <= capacity) fails.
PastEnd(len, copy_count, cap) == ~(len + copy_count <= cap)

\* Mutation of BeforeStart: a distance equal to the length refused too.
BeforeStartOffByOne(len, lookback_distance) == lookback_distance >= len

\* len.checked_sub(lookback_distance) is None.
BeforeStart(len, lookback_distance) == lookback_distance > len

(***************************************************************************)
(* yaz0::decompress as a state machine: one action per loop iteration.     *)
(***************************************************************************)
Fail(err) ==
  /\ pc' = "done"
  /\ result' = err
  /\ output' = NoOutput

\* decompressed_size: a stream shorter than the header.
Yaz0HeaderIo ==
  /\ pc = "start"
  /\ Fail("Io")
  /\ UNCHANGED <<overflow_checks, header, input, decomp_size, capacity,
                 decomp_data, groups, read_buffer, token>>
  /\ UNCHANGED bymlVars

\* decompressed_size, then Vec::with_capacity.
Yaz0Header ==
  /\ pc = "start"
  /\ \E magic \in {Yaz0Magic, <<89, 97, 122, 49>>}, size \in DeclSizes :
       /\ header' = HeaderBytes(magic, size)
       /\ IF SubSeq(header', 1, 4) = Yaz0Magic
            THEN /\ decomp_size' = U32BE(SubSeq(header', 5, 8))
                 /\ capacity' = decomp_size'
                 /\ pc' = "loop"
                 /\ UNCHANGED <<result, output>>
            ELSE /\ Fail("IncorrectMagic")
                 /\ UNCHANGED <<decomp_size, capacity>>
  /\ UNCHANGED <<overflow_checks, input, decomp_data, groups, read_buffer, token>>
  /\ UNCHANGED bymlVars

\* while decomp_data.len() < decomp_data.capacity() is false: Ok(...)
Yaz0Return ==
  /\ pc = "loop"
  /\ ~(Len(decomp_data) < capacity)
  /\ pc' = "done"
  /\ result' = "Ok"
  /\ output' = [returned |-> TRUE, bytes |-> decomp_data]
  /\ UNCHANGED <<overflow_checks, header, input, decomp_size, capacity,
                 decomp_data, groups, read_buffer, token>>
  /\ UNCHANGED bymlVars

\* The group byte cannot be read.
Yaz0GroupIo ==
  /\ pc = "loop"
  /\ Len(decomp_data) < capacity
  /\ \E g \in FetchGroup :
       /\ ~g.ok
       /\ Fail("Io")
       /\ input' = g.input
  /\ UNCHANGED <<overflow_checks, header, decomp_size, capacity,
                 decomp_data, groups, read_buffer, token>>
  /\ UNCHANGED bymlVars

\* Group::Uncompressed
Yaz0Literal ==
  /\ pc = "loop"
  /\ Len(decomp_data) < capacity
  /\ \E g \in FetchGroup :
       /\ g.ok
       /\ g.pop.group = "Uncompressed"
       /\ groups' = g.pop.groups
       /\ token' = [NoToken EXCEPT !.kind = "Uncompressed",
                                   !.refilled = g.refilled,
                                   !.before = Len(decomp_data)]
       /\ \E r \in ReadExact(g.input, 1) :
            /\ input' = r.input
            /\ IF r.ok
                 THEN /\ read_buffer' = [g.rb EXCEPT ![1] = r.bytes[1]]
                      /\ decomp_data' = Append(decomp_data, r.bytes[1])
                      /\ UNCHANGED <<pc, result, output>>
                 ELSE /\ read_buffer' = g.rb
                      /\ Fail("Io")
                      /\ UNCHANGED decomp_data
  /\ UNCHANGED <<overflow_checks, header, decomp_size, capacity>>
  /\ UNCHANGED bymlVars

\* The (copy_count, lookback_distance) pair of the Copy arm.
DecodeCopy(rb, checks) ==
  IF rb[1] \div 16 = 0
    THEN LET long_copy == LongCopy(rb)
             lookback_distance ==
               long_copy.lookback_upper * 256 + long_copy.lookback_lower
         IN [form |-> "long",
             copy_count |-> AddU8(long_copy.copy_count, 18, checks),
             lookback_distance |-> lookback_distance + 1]
    ELSE LET short_copy == ShortCopy(<<rb[1], rb[2]>>)
             lookback_distance ==
               short_copy.lookback_upper * 256 + short_copy.lookback_lower
         IN [form |-> "short",
             copy_count |-> AddU8(short_copy.copy_count, 2, checks),
             lookback_distance |-> lookback_distance + 1]

\* The Copy arm once its bytes are in read_buffer.
CopyArm(rb, g) ==
  LET dec == DecodeCopy(rb, overflow_checks)
      d == [form |-> dec.form, copy_count |-> dec.copy_count.value,
            lookback_distance |-> dec.lookback_distance]
      len == Len(decomp_data)
      tok == [NoToken EXCEPT !.kind = "Copy", !.form = d.form,
                             !.refilled = g.refilled, !.before = len,
                             !.lookback_distance = d.lookback_distance]
  IN /\ read_buffer' = rb
     /\ IF dec.copy_count.panic
          THEN /\ token' = tok
               /\ Fail("panic")
               /\ UNCHANGED decomp_data
          ELSE IF PastEnd(len, d.copy_count, capacity)
          THEN /\ token' = [tok EXCEPT !.copy_count = d.copy_count]
               /\ Fail("CopyingPastEnd")
               /\ UNCHANGED decomp_data
          ELSE IF BeforeStart(len, d.lookback_distance)
          THEN /\ token' = [tok EXCEPT !.copy_count = d.copy_count]
               /\ Fail("CopyingFromBeforeStart")
               /\ UNCHANGED decomp_data
          ELSE /\ token' = [tok EXCEPT !.copy_count = d.copy_count,
                                       !.start = len - d.lookback_distance]
               /\ decomp_data' =
                    ExtendAndCopy(decomp_data, len - d.lookback_distance,
                                  d.copy_count)
               /\ UNCHANGED <<pc, result, output>>

\* Group::Copy
Yaz0Copy ==
  /\ pc = "loop"
  /\ Len(decomp_data) < capacity
  /\ \E g \in FetchGroup :
       /\ g.ok
       /\ g.pop.group = "Copy"
       /\ groups' = g.pop.groups
       /\ \E r \in ReadExact(g.input, 2) :
            IF ~r.ok
              THEN /\ input' = r.input
                   /\ read_buffer' = g.rb
                   /\ token' = [NoToken EXCEPT !.kind = "Copy",
                                               !.refilled = g.refilled,
                                               !.before = Len(decomp_data)]
                   /\ Fail("Io")
                   /\ UNCHANGED decomp_data
              ELSE IF r.bytes[1] \div 16 = 0
              THEN \E r2 \in ReadExact(r.input, 1) :
                     /\ input' = r2.input
                     /\ IF r2.ok
                          THEN CopyArm(<<r.bytes[1], r.bytes[2], r2.bytes[1]>>, g)
                          ELSE /\ read_buffer' = <<r.bytes[1], r.bytes[2], g.rb[3]>>
                               /\ token' = [NoToken EXCEPT !.kind = "Copy",
                                                           !.refilled = g.refilled,
                                                           !.before = Len(decomp_data)]
                               /\ Fail("Io")
                               /\ UNCHANGED decomp_data
              ELSE /\ input' = r.input
                   /\ CopyArm(<<r.bytes[1], r.bytes[2], g.rb[3]>>, g)
  /\ UNCHANGED <<overflow_checks, header, decomp_size, capacity>>
  /\ UNCHANGED bymlVars

Yaz0Next ==
  \/ Yaz0HeaderIo
  \/ Yaz0Header
  \/ Yaz0Return
  \/ Yaz0GroupIo
  \/ Yaz0Literal
  \/ Yaz0Copy


(***************************************************************************)
(* BYML: byte order, integers and the seekable sink.                       *)
(***************************************************************************)
\* util::align_up for a power-of-two alignment.
AlignUp(value, alignment) ==
  ((value + alignment - 1) \div alignment) * alignment

Reverse(s) == [i \in 1..Len(s) |-> s[Len(s) + 1 - i]]

\* The bytes of a 32-bit integer, least significant first.  A u32 of 2^31 or
\* more is carried as the i32 with the same bit pattern (floor division and
\* modulus give its two's-complement bytes).
LeBytes32(v) ==
  << v % 256, (v \div 256) % 256, (v \div 65536) % 256, (v \div 16777216) % 256 >>

\* U32<O>::new(v).as_bytes(); as_bytes of a native u32 when ord is the host's.
EncU32(v, ord) == IF ord = "LE" THEN LeBytes32(v) ELSE Reverse(LeBytes32(v))

\* U32<O>::get: the value of four bytes read in byte order ord.
DecU32(b, ord) ==
  LET le == IF ord = "LE" THEN b ELSE Reverse(b)
      top == IF le[4] >= 128 THEN le[4] - 256 ELSE le[4]
  IN ((top * 256 + le[3]) * 256 + le[2]) * 256 + le[1]

\* U16<O>::new(v).as_bytes()
EncU16(v, ord) ==
  IF ord = "LE" THEN << v % 256, (v \div 256) % 256 >>
                ELSE << (v \div 256) % 256, v % 256 >>

\* The 3-byte count of ContainerHeader::new and key index of DictEntry::new.
EncU24(v, ord) ==
  IF ord = "LE" THEN << v % 256, (v \div 256) % 256, (v \div 65536) % 256 >>
                ELSE << (v \div 65536) % 256, (v \div 256) % 256, v % 256 >>

\* ContainerHeader::entries and DictEntry::hash_key_index.
DecU24(b, ord) ==
  IF ord = "LE" THEN (b[3] * 256 + b[2]) * 256 + b[1]
                ELSE (b[1] * 256 + b[2]) * 256 + b[3]

\* I64<O>/U64<O>/F64<O>::new(v).as_bytes() and get; a 64-bit value is carried
\* as its eight bytes, most significant first.
Enc64(v, ord) == IF ord = "LE" THEN Reverse(v) ELSE v

Dec64(b, ord) == IF ord = "LE" THEN Reverse(b) ELSE b

\* enum DataType as u8.
DataTypeByte(t) ==
  CASE t = "String" -> 160
    [] t = "Array" -> 192
    [] t = "Dictionary" -> 193
    [] t = "StringTable" -> 194
    [] t = "Bool" -> 208
    [] t = "I32" -> 209
    [] t = "F32" -> 210
    [] t = "U32" -> 211
    [] t = "I64" -> 212
    [] t = "U64" -> 213
    [] t = "F64" -> 214
    [] t = "Null" -> 255

DataTypes ==
  {"String", "Array", "Dictionary", "StringTable", "Bool", "I32", "F32",
   "U32", "I64", "U64", "F64", "Null"}

\* DataType::from_u8: the data type of a tag byte, "Invalid" for any other byte.
DataTypeFromU8(b) ==
  IF \E t \in DataTypes : DataTypeByte(t) = b
    THEN CHOOSE t \in DataTypes : DataTypeByte(t) = b
    ELSE "Invalid"

\* Byte-lexicographic order of CString and of [u8] slices.
BytesLess(a, b) ==
  \/ /\ Len(a) < Len(b)
     /\ \A i \in 1..Len(a) : a[i] = b[i]
  \/ \E i \in 1..(IF Len(a) < Len(b) THEN Len(a) ELSE Len(b)) :
       /\ a[i] < b[i]
       /\ \A j \in 1..(i - 1) : a[j] = b[j]

\* A set of byte strings as the sorted Vec (table.sort()).
RECURSIVE SortedSeq(_)
SortedSeq(S) ==
  IF S = {} THEN <<>>
  ELSE LET m == CHOOSE x \in S : \A y \in S : x = y \/ BytesLess(x, y)
       IN <<m>> \o SortedSeq(S \ {m})

\* Position (from 0) of x in sequence s.
IndexOf(s, x) == (CHOOSE i \in 1..Len(s) : s[i] = x) - 1

RECURSIVE Concat(_)
Concat(ss) == IF ss = <<>> THEN <<>> ELSE Head(ss) \o Concat(Tail(ss))

\* The statements of write run in turn: the state `st` a statement leaves is
\* computed before `rest`, what follows it, is.  The value is that of `rest`.
InTurn(st, rest) == IF st = st THEN rest ELSE rest

\* The sink: a Cursor over a byte vector.  A write past the end pads the gap
\* with zeros; an empty write changes nothing.
SinkNew == [buf |-> <<>>, pos |-> 0]

SinkSeek(s, p) == [s EXCEPT !.pos = p]

SinkWriteAll(s, bytes) ==
  IF bytes = <<>> THEN s
  ELSE LET n == Len(bytes)
           padded == IF s.pos > Len(s.buf)
                       THEN s.buf \o Zeros(s.pos - Len(s.buf))
                       ELSE s.buf
           after == IF Len(padded) > s.pos + n
                      THEN SubSeq(padded, s.pos + n + 1, Len(padded))
                      ELSE <<>>
       IN [buf |-> SubSeq(padded, 1, s.pos) \o bytes \o after,
           pos |-> s.pos + n]

(***************************************************************************)
(* BYML writer tree.  A node is [t, v, kids]: t the variant, v the payload *)
(* (one integer for Bool/I32/F32/U32, the bytes of a String, the eight     *)
(* bytes of an I64/U64/F64), kids the elements of an Array or the entries  *)
(* of a Dictionary as [key, node], a BTreeMap kept sorted by key.          *)
(***************************************************************************)
Scalar(t, x) == [t |-> t, v |-> <<x>>, kids |-> <<>>]

Str(bytes) == [t |-> "String", v |-> bytes, kids |-> <<>>]

Long(t, bytes) == [t |-> t, v |-> bytes, kids |-> <<>>]

NullNode == [t |-> "Null", v |-> <<>>, kids |-> <<>>]

\* BymlWriterArray with the given elements pushed in order.
Arr(elems) ==
  [t |-> "Array", v |-> <<>>,
   kids |-> [i \in 1..Len(elems) |-> [key |-> <<>>, node |-> elems[i]]]]

\* BymlWriterDict with the given [key, node] entries, sorted by key.
Dict(entries) == [t |-> "Dictionary", v |-> <<>>, kids |-> entries]

IsContainer(n) == n.t \in {"Array", "Dictionary"}

\* BymlWriterNode::data_type
NodeDataType(n) == DataTypeByte(n.t)

\* BymlWriter::new: the containers reachable from the root, one per content.
RECURSIVE Reachable(_)
Reachable(c) ==
  {c} \cup UNION {Reachable(c.kids[i].node) :
                    i \in {j \in 1..Len(c.kids) : IsContainer(c.kids[j].node)}}

\* All orders in which a HashSet of these containers may be iterated.
Orders(S) ==
  {o \in [1..Cardinality(S) -> S] : \A i, j \in 1..Cardinality(S) : o[i] = o[j] => i = j}

\* Mutation of HashSetIter: a hasher seeded anew for every set (RandomState)
\* iterates equal sets in any order.
HashSetIterRandomState(S, order) == Orders(S)

\* Iterating a HashSet<Container, BuildHasherDefault<DefaultHasher>>: the
\* hasher has fixed keys, so sets built by the same insertions are iterated
\* in the same order, `order`, whichever writer holds them.
HashSetIter(S, order) == {order}

RECURSIVE ChildContainers(_, _)
ChildContainers(c, i) ==
  IF i > Len(c.kids) THEN <<>>
  ELSE (IF IsContainer(c.kids[i].node) THEN <<c.kids[i].node>> ELSE <<>>)
         \o ChildContainers(c, i + 1)

\* Mutation of NestedOf: the Dictionary arm pushes nothing.
NestedOfArraysOnly(c) == IF c.t = "Array" THEN ChildContainers(c, 1) ELSE <<>>

\* What BymlWriter::new pushes for a popped container: its nested arrays and
\* dictionaries, in element order.
NestedOf(c) == ChildContainers(c, 1)

\* BymlWriterArray::inline_size and BymlWriterDict::inline_size
InlineSize(c) ==
  IF c.t = "Array"
    THEN 4 + AlignUp(Len(c.kids), 4) + AlignUp(Len(c.kids) * 4, 4)
    ELSE 4 + AlignUp(Len(c.kids) * 8, 4)

\* container_offset before the i-th container of the traversal.
RECURSIVE ContainerOffset(_, _)
ContainerOffset(order, i) ==
  IF i = 1 THEN 0
  ELSE ContainerOffset(order, i - 1) + AlignUp(InlineSize(order[i - 1]), 4)

\* The `keys` and `strings` sets gathered by the first traversal.
KeysOf(S) == UNION {{c.kids[i].key : i \in 1..Len(c.kids)} : c \in {d \in S : d.t = "Dictionary"}}

StringsOf(S) ==
  UNION {{c.kids[i].node.v : i \in {j \in 1..Len(c.kids) : c.kids[j].node.t = "String"}} : c \in S}

\* The lookup of the emission pass that finds no entry, "" when each finds
\* one: a nested container's offset (get_value), a key's index, a string's
\* index.  The message is that of the `expect` that panics.
Missed(S) ==
  IF \E c \in S : \E i \in 1..Len(c.kids) :
       IsContainer(c.kids[i].node) /\ c.kids[i].node \notin S
    THEN "missed reference during container ingest"
  ELSE IF \E c \in S : \E i \in 1..Len(c.kids) :
            c.t = "Dictionary" /\ c.kids[i].key \notin KeysOf(S)
    THEN "missed key in key ingest"
  ELSE IF \E c \in S : \E i \in 1..Len(c.kids) :
            c.kids[i].node.t = "String" /\ c.kids[i].node.v \notin StringsOf(S)
    THEN "missed string during string ingest"
  ELSE ""

\* strings_len / keys_len
TableLen(table) ==
  LET seq == SortedSeq(table)
      RECURSIVE Sum(_)
      Sum(i) == IF i = 0 THEN 0 ELSE Sum(i - 1) + Len(seq[i]) + 1
  IN AlignUp(Sum(Len(seq)), 4)

\* calc_table_total
CalcTableTotal(table) ==
  AlignUp(4 + AlignUp((Cardinality(table) + 1) * 4, 4) + TableLen(table), 4)

\* ContainerHeader::new(..).as_bytes()
ContainerHeaderBytes(t, entries, ord) == <<DataTypeByte(t)>> \o EncU24(entries, ord)

\* Mutation of DictEntryBytes: every entry names the first key of the table.
DictEntryBytesFirstKey(t, hash_key_index, value, ord) ==
  EncU24(0, ord) \o <<DataTypeByte(t)>> \o EncU32(value, ord)

\* DictEntry::new(..).as_bytes()
DictEntryBytes(t, hash_key_index, value, ord) ==
  EncU24(hash_key_index, ord) \o <<DataTypeByte(t)>> \o EncU32(value, ord)

\* Header { magic, version, hash_key_offset, string_table_offset, root_node_offset }
BymlHeaderBytes(ord, version, hash_key_offset, string_table_offset, root_node_offset) ==
  (IF ord = "BE" THEN <<66, 89>> ELSE <<89, 66>>)
  \o EncU16(version, ord)
  \o EncU32(hash_key_offset, ord)
  \o EncU32(string_table_offset, ord)
  \o EncU32(root_node_offset, ord)

\* BymlWriter::write_string_table: the offsets go out as as_bytes of a
\* Vec<u32>, in the host's byte order.
WriteStringTable(sink, table, ord, host) ==
  LET sorted == SortedSeq(table)
      n == Len(sorted)
      first == 4 + AlignUp((n + 1) * 4, 4)
      RECURSIVE OffsetAt(_)
      OffsetAt(i) == IF i = 1 THEN first
                     ELSE OffsetAt(i - 1) + Len(sorted[i - 1]) + 1
      offsets == [i \in 1..(n + 1) |->
                    IF i <= n THEN OffsetAt(i) ELSE OffsetAt(n + 1) - 1]
      s1 == SinkWriteAll(sink, ContainerHeaderBytes("StringTable", n, ord))
      s2 == SinkWriteAll(s1, Concat([i \in 1..(n + 1) |-> EncU32(offsets[i], host)]))
  IN SinkWriteAll(s2, Concat([i \in 1..n |-> sorted[i] \o <<0>>]))

\* BymlWriter::write_long
WriteLong(st, bytes) ==
  LET position == st.sink.pos
      s1 == SinkWriteAll(SinkSeek(st.sink, st.long_offset), bytes)
  IN [value |-> st.long_offset,
      st |-> [sink |-> SinkSeek(s1, position),
              long_offset |-> st.long_offset + Len(bytes)]]

\* BymlWriter::get_value.  ctx = [offsets, nodes_start_offset, strings, ord].
GetValue(ctx, st, ele) ==
  CASE IsContainer(ele) ->
         [value |-> ctx.nodes_start_offset + ctx.offsets[ele], st |-> st]
    [] ele.t = "Bool" -> [value |-> IF ele.v[1] # 0 THEN 1 ELSE 0, st |-> st]
    [] ele.t \in {"I32", "F32", "U32"} -> [value |-> ele.v[1], st |-> st]
    [] ele.t \in {"I64", "U64", "F64"} -> WriteLong(st, Enc64(ele.v, ctx.ord))
    [] ele.t = "String" -> [value |-> IndexOf(ctx.strings, ele.v), st |-> st]
    [] ele.t = "Null" -> [value |-> 0, st |-> st]

\* The element_values of an array gathered while its long values are written.
RECURSIVE ArrayValues(_, _, _, _)
ArrayValues(ctx, st, kids, i) ==
  IF i > Len(kids) THEN [values |-> <<>>, st |-> st]
  ELSE LET g == GetValue(ctx, st, kids[i].node)
           rest == ArrayValues(ctx, g.st, kids, i + 1)
       IN InTurn(g.st, [values |-> <<g.value>> \o rest.values, st |-> rest.st])

\* let align = 4 - (writer.stream_position()? & 3)
ArrayAlign(pos) == 4 - (pos % 4)

\* Container::Array arm of the emission loop; the values go out as as_bytes
\* of a Vec<u32>, in the host's byte order.
EmitArray(ctx, st, array) ==
  LET n == Len(array.kids)
      vals == ArrayValues(ctx, st, array.kids, 1)
      s1 == SinkWriteAll(vals.st.sink, ContainerHeaderBytes("Array", n, ctx.ord))
      s2 == SinkWriteAll(s1, [i \in 1..n |-> NodeDataType(array.kids[i].node)])
      s3 == SinkSeek(s2, s2.pos + ArrayAlign(s2.pos))
      s4 == SinkWriteAll(s3, Concat([i \in 1..n |-> EncU32(vals.values[i], ctx.host)]))
  IN [sink |-> s4, long_offset |-> vals.st.long_offset]

\* Container::Dictionary arm: one DictEntry per entry, in key order.
RECURSIVE EmitEntries(_, _, _, _)
EmitEntries(ctx, st, kids, i) ==
  IF i > Len(kids) THEN st
  ELSE LET g == GetValue(ctx, st, kids[i].node)
           entry == DictEntryBytes(kids[i].node.t, IndexOf(ctx.keys, kids[i].key),
                                   g.value, ctx.ord)
           written == [sink |-> SinkWriteAll(g.st.sink, entry),
                       long_offset |-> g.st.long_offset]
       IN InTurn(written, EmitEntries(ctx, written, kids, i + 1))

EmitDict(ctx, st, dict) ==
  EmitEntries(ctx,
              [st EXCEPT !.sink = SinkWriteAll(st.sink,
                 ContainerHeaderBytes("Dictionary", Len(dict.kids), ctx.ord))],
              dict.kids, 1)

\* The emission loop over the containers in traversal order.
RECURSIVE EmitContainers(_, _, _, _)
EmitContainers(ctx, st, order, i) ==
  IF i > Len(order) THEN st
  ELSE LET at == [st EXCEPT !.sink =
                    SinkSeek(st.sink, ctx.nodes_start_offset + ctx.offsets[order[i]])]
           after == IF order[i].t = "Array" THEN EmitArray(ctx, at, order[i])
                                            ELSE EmitDict(ctx, at, order[i])
       IN InTurn(after, EmitContainers(ctx, after, order, i + 1))

\* hash_key_offset, string_table_offset and nodes_start_offset as write
\* computes them for the container set S.
TableOffsets(S) ==
  LET keys == KeysOf(S)
      strings == StringsOf(S)
      hash_key_offset == 16
      keys_total == IF keys = {} THEN 0 ELSE CalcTableTotal(keys)
      string_table_offset == hash_key_offset + keys_total
      strings_total == IF strings = {} THEN 0 ELSE CalcTableTotal(strings)
  IN [hash_key |-> hash_key_offset,
      string_table |-> string_table_offset,
      nodes_start |-> AlignUp(string_table_offset + strings_total, 4)]

\* BymlWriter::write::<O>(sink, version) for the writer of `root`, whose
\* container set is iterated in `order`, on a host of byte order `host`.
\* The result is the sink's bytes.
WriteDoc(root, order, ord, host, version) ==
  LET S == {order[i] : i \in 1..Len(order)}
      offsets == [c \in S |-> ContainerOffset(order, IndexOf(order, c) + 1)]
      container_offset == ContainerOffset(order, Len(order) + 1)
      keys == KeysOf(S)
      strings == StringsOf(S)
      hash_key_offset == TableOffsets(S).hash_key
      string_table_offset == TableOffsets(S).string_table
      nodes_start_offset == TableOffsets(S).nodes_start
      hdr == BymlHeaderBytes(ord, version, hash_key_offset, string_table_offset,
                             nodes_start_offset + offsets[root])
      s1 == SinkWriteAll(SinkNew, hdr)
      s2 == WriteStringTable(s1, keys, ord, host)
      s3 == WriteStringTable(SinkSeek(s2, string_table_offset), strings, ord, host)
      s4 == SinkSeek(s3, nodes_start_offset)
      ctx == [offsets |-> offsets, nodes_start_offset |-> nodes_start_offset,
              strings |-> SortedSeq(strings), keys |-> SortedSeq(keys),
              ord |-> ord, host |-> host]
      done == EmitContainers(ctx, [sink |-> s4,
                                   long_offset |-> nodes_start_offset + container_offset],
                             order, 1)
  IN InTurn(s1, InTurn(s2, InTurn(s4, InTurn(ctx, done.sink.buf))))

(***************************************************************************)
(* BYML writer at the limits of u32.  Every size and offset write computes *)
(* is a multiple of 4; they are counted here in 4-byte words, so that the  *)
(* u32 range, 2^30 words, lies within 32-bit signed integers.  A container *)
(* is [t, len, longs, top_key]: its kind, its number of elements, how many *)
(* of them are 64-bit values, and the greatest key index its entries use.  *)
(***************************************************************************)
\* The u32 range in words: a value of U32Words words or more does not fit.
U32Words == 2^30

\* 2u32.pow(24), the bound of ContainerHeader::new and DictEntry::new.
EntriesLimit == 2^24

\* u32::checked_add on word counts; -1 stands for None.
CheckedAddWords(a, b) == IF a + b >= U32Words THEN -1 ELSE a + b

\* align_up(value, 4) on a u32 that is a multiple of 4: `value + alignment`
\* overflows for 0xFFFFFFFC, a panic where overflow is checked; where it is
\* not, the wrapped sum still gives `value`.
AlignUpWords(w, checks) == [panic |-> checks /\ w = U32Words - 1, value |-> w]

\* BymlWriterArray::inline_size / BymlWriterDict::inline_size, in usize.
InlineWords(c) ==
  IF c.t = "Array" THEN 1 + ((c.len + 3) \div 4) + c.len
                   ELSE 1 + 2 * c.len

PlanFailed(tag) ==
  [tag |-> tag, container_offset |-> 0, hash_key_offset |-> 0,
   string_table_offset |-> 0, nodes_start_offset |-> 0,
   root_node_offset |-> 0, wrapped |-> FALSE]

\* The traverse_containers closure of write, from container i on: -1 for
\* Overflowed, -2 for a panic, else the final container_offset.
RECURSIVE FirstPass(_, _, _, _, _)
FirstPass(shape, i, container_offset, data_size, checks) ==
  IF i > Len(shape) THEN container_offset
  ELSE LET size == InlineWords(shape[i])
       IN IF size >= U32Words THEN -1
          ELSE IF AlignUpWords(size, checks).panic THEN -2
          ELSE IF \/ CheckedAddWords(container_offset, size) < 0
                  \/ CheckedAddWords(data_size, size) < 0
                  \/ data_size + size + 2 * shape[i].longs >= U32Words
            THEN -1
          ELSE FirstPass(shape, i + 1, container_offset + size,
                         data_size + size + 2 * shape[i].longs, checks)

\* containers[&cont] for the i-th container of the traversal.
RECURSIVE OffsetBefore(_, _)
OffsetBefore(shape, i) ==
  IF i = 1 THEN 0 ELSE OffsetBefore(shape, i - 1) + InlineWords(shape[i - 1])

\* calc_table_total(table, table_len): -1 for Overflowed, -2 for a panic.
CalcTableTotalWords(count, table_len, checks) ==
  IF table_len >= U32Words \/ count + 1 >= U32Words THEN -1
  ELSE IF AlignUpWords(count + 1, checks).panic THEN -2
  ELSE IF CheckedAddWords(1, count + 1) < 0 THEN -1
  ELSE IF CheckedAddWords(1 + count + 1, table_len) < 0 THEN -1
  ELSE IF AlignUpWords(1 + count + 1 + table_len, checks).panic THEN -2
  ELSE 1 + count + 1 + table_len

\* `hash_key_offset + keys_total`, a plain u32 addition: a panic where
\* overflow is checked, the wrapped sum where it is not.
StringTableOffsetWords(hash_key_offset, keys_total, checks) ==
  IF hash_key_offset + keys_total < U32Words
    THEN [panic |-> FALSE, wrapped |-> FALSE,
          value |-> hash_key_offset + keys_total]
    ELSE [panic |-> checks, wrapped |-> ~checks,
          value |-> hash_key_offset + keys_total - U32Words]

\* write up to the construction of the header: the sizes, the table offsets,
\* the start of the node region and the root offset.
PlanOffsets(p, checks) ==
  LET container_offset == FirstPass(p.shape, 1, 0, 0, checks)
      hash_key_offset == 4
      keys_total == IF p.keys_count = 0 THEN 0
                    ELSE CalcTableTotalWords(p.keys_count, p.keys_len, checks)
      sto == StringTableOffsetWords(hash_key_offset, keys_total, checks)
      strings_total == IF p.strings_count = 0 THEN 0
                       ELSE CalcTableTotalWords(p.strings_count, p.strings_len,
                                                checks)
      nodes == CheckedAddWords(sto.value, strings_total)
      root_node_offset == CheckedAddWords(nodes, OffsetBefore(p.shape, p.root))
  IN IF container_offset = -1 THEN PlanFailed("Overflowed")
     ELSE IF container_offset = -2 THEN PlanFailed("Panic")
     ELSE IF keys_total = -1 THEN PlanFailed("Overflowed")
     ELSE IF keys_total = -2 THEN PlanFailed("Panic")
     ELSE IF sto.panic THEN PlanFailed("Panic")
     ELSE IF strings_total = -1 THEN PlanFailed("Overflowed")
     ELSE IF strings_total = -2 THEN PlanFailed("Panic")
     ELSE IF nodes < 0 THEN PlanFailed("Overflowed")
     ELSE IF AlignUpWords(nodes, checks).panic THEN PlanFailed("Panic")
     ELSE IF root_node_offset < 0 THEN PlanFailed("Overflowed")
     ELSE [tag |-> "Ok", container_offset |-> container_offset,
           hash_key_offset |-> hash_key_offset,
           string_table_offset |-> sto.value,
           nodes_start_offset |-> nodes,
           root_node_offset |-> root_node_offset,
           wrapped |-> sto.wrapped]

\* The greater of two sink lengths.
Longer(a, b) == IF a > b THEN a ELSE b

\* write_string_table for a table of `count` strings of `table_len` words at
\* word `at` of the sink: Overflowed from ContainerHeader::new, else the
\* sink's new length.
WriteTableWords(sink_len, at, count, table_len) ==
  IF count >= EntriesLimit
    THEN [tag |-> "Overflowed", sink_len |-> sink_len]
    ELSE [tag |-> "Ok",
          sink_len |-> Longer(sink_len, at + 1 + count + 1 + table_len)]

\* One turn of the emission loop, for a container at word `at` while the
\* long values go to word `long_offset`: ContainerHeader::new, write_long for
\* each 64-bit element, DictEntry::new for each entry.
EmitWords(c, at, long_offset, sink_len) ==
  LET longs_written ==
        IF long_offset + 2 * c.longs < U32Words THEN c.longs
        ELSE (U32Words - 1 - long_offset) \div 2
      after_longs == IF longs_written = 0 THEN sink_len
                     ELSE Longer(sink_len, long_offset + 2 * longs_written)
  IN IF c.len >= EntriesLimit
       THEN [tag |-> "Overflowed", sink_len |-> sink_len,
             long_offset |-> long_offset]
     ELSE IF c.t = "Array"
       THEN IF longs_written < c.longs
              THEN [tag |-> "Overflowed", sink_len |-> after_longs,
                    long_offset |-> long_offset + 2 * longs_written]
              ELSE [tag |-> "Ok",
                    sink_len |-> Longer(after_longs, at + InlineWords(c)),
                    long_offset |-> long_offset + 2 * c.longs]
     ELSE IF longs_written < c.longs \/ c.top_key >= EntriesLimit
       THEN [tag |-> "Overflowed", sink_len |-> Longer(after_longs, at + 1),
             long_offset |-> long_offset + 2 * longs_written]
     ELSE [tag |-> "Ok",
           sink_len |-> Longer(after_longs, at + InlineWords(c)),
           long_offset |-> long_offset + 2 * c.longs]

NoPlan ==
  [pc |-> "idle", shape |-> <<>>, root |-> 0, keys_count |-> 0,
   keys_len |-> 0, strings_count |-> 0, strings_len |-> 0,
   offsets |-> PlanFailed("none"), long_offset |-> 0, next |-> 0,
   sink_len |-> 0, result |-> "none"]

\* byml::MAXIMUM_SUPPORTED_VERSION
MAXIMUM_SUPPORTED_VERSION == 3

(***************************************************************************)
(* BYML reader: views over the byte buffer `d`.                            *)
(***************************************************************************)
\* Mutation of InBounds: a range that ends exactly at the end of the buffer is
\* refused.
InBoundsShortOfEnd(d, a, size) == a >= 0 /\ a <= Len(d) /\ a + size < Len(d)

\* d.get(a..a + size) is Some.  An offset that came from a u32 of 2^31 or
\* more is negative here and lies past every buffer.
InBounds(d, a, size) == a >= 0 /\ a <= Len(d) /\ a + size <= Len(d)

\* The bytes d[a..a + size].
Slice(d, a, size) == SubSeq(d, a + 1, a + size)

NoTable == [present |-> FALSE, start_offset |-> 0, entries |-> 0]

\* Mutation of GetStringTable: an offset at the very end of the buffer is
\* taken for a table without entries.
GetStringTableEmptyAtEnd(d, offset, o) ==
  IF offset = Len(d)
    THEN [err |-> "",
          table |-> [present |-> TRUE, start_offset |-> offset, entries |-> 0]]
  ELSE IF ~InBounds(d, offset, 4)
    THEN [err |-> "HeaderOutOfBounds", table |-> NoTable]
  ELSE LET entries == DecU24(Slice(d, offset + 1, 3), o)
       IN IF ~InBounds(d, offset + 4, entries * 4)
            THEN [err |-> "AddressTableOutOfBounds", table |-> NoTable]
            ELSE [err |-> "",
                  table |-> [present |-> TRUE, start_offset |-> offset,
                             entries |-> entries]]

\* StringTable::get_string_table
GetStringTable(d, offset, o) ==
  IF ~InBounds(d, offset, 4)
    THEN [err |-> "HeaderOutOfBounds", table |-> NoTable]
  ELSE LET entries == DecU24(Slice(d, offset + 1, 3), o)
       IN IF ~InBounds(d, offset + 4, entries * 4)
            THEN [err |-> "AddressTableOutOfBounds", table |-> NoTable]
            ELSE [err |-> "",
                  table |-> [present |-> TRUE, start_offset |-> offset,
                             entries |-> entries]]

\* Position (from 0) of the first zero byte of d at or after `from`, or -1.
NulFrom(d, from) ==
  IF \E i \in (from + 1)..Len(d) : d[i] = 0
    THEN (CHOOSE i \in (from + 1)..Len(d) :
            d[i] = 0 /\ \A j \in (from + 1)..(i - 1) : d[j] # 0) - 1
    ELSE -1

\* StringTable::read_string: string_data.get(offset..).unwrap() panics when
\* the offset lies past the end of the buffer.  usize is 64 bits wide, so the
\* checked_add of a u32 and the table's start cannot fail.
ReadString(d, table, index, o) ==
  IF ~(index >= 0 /\ index < table.entries)
    THEN [tag |-> "Err", err |-> "OffsetEntryOutOfBounds", bytes |-> <<>>]
  ELSE LET rel == DecU32(Slice(d, table.start_offset + 4 + index * 4, 4), o)
           offset == rel + table.start_offset
       IN IF rel < 0 \/ rel > Len(d) \/ offset > Len(d)
            THEN [tag |-> "Panic", err |-> "unwrap on None", bytes |-> <<>>]
          ELSE IF NulFrom(d, offset) < 0
            THEN [tag |-> "Err", err |-> "UnterminatedString", bytes |-> <<>>]
          ELSE [tag |-> "Ok", err |-> "",
                bytes |-> Slice(d, offset, NulFrom(d, offset) - offset)]

\* A reader container: BymlReader::Empty, BymlReaderArray (data_types at
\* start, values at values_start) or BymlReaderDict (entries at start).
EmptyReader ==
  [kind |-> "Empty", start |-> 0, values_start |-> 0, count |-> 0,
   string_table |-> NoTable, hash_key_table |-> NoTable]

\* The outcome of an open or of a get_element: Some(node), None, Err or a panic.
Outcome(tag, err, t, v, node) ==
  [tag |-> tag, err |-> err, t |-> t, v |-> v, node |-> node]

NoOutcome == Outcome("none", "", "", <<>>, EmptyReader)

ErrOutcome(err) == Outcome("Err", err, "", <<>>, EmptyReader)

PanicOutcome(why) == Outcome("Panic", why, "", <<>>, EmptyReader)

NoneOutcome == Outcome("None", "", "", <<>>, EmptyReader)

\* BymlReaderArray::get_components
ArrayGetComponents(d, entries, start, string_table, hash_key_table) ==
  LET entries_end == start + 4 + entries
      values_start == AlignUp(entries_end, 4)
  IN IF ~InBounds(d, start + 4, entries)
       THEN ErrOutcome("DataTypesOutOfBounds")
     ELSE IF \E i \in 1..entries : DataTypeFromU8(d[start + 4 + i]) = "Invalid"
       THEN ErrOutcome("InvalidElementDataType")
     ELSE IF ~InBounds(d, values_start, entries * 4)
       THEN ErrOutcome("ValuesOutOfBounds")
     ELSE Outcome("Some", "", "Array", <<>>,
                  [kind |-> "Array", start |-> start + 4,
                   values_start |-> values_start, count |-> entries,
                   string_table |-> string_table,
                   hash_key_table |-> hash_key_table])

\* BymlReaderDict::get_components
DictGetComponents(d, entries, start, string_table, hash_key_table) ==
  IF ~hash_key_table.present
    THEN ErrOutcome("NoHashKeyTable")
  ELSE IF ~InBounds(d, start + 4, entries * 8)
    THEN ErrOutcome("DataTypesOutOfBounds")
  ELSE IF \E i \in 0..(entries - 1) :
            DataTypeFromU8(d[start + 4 + i * 8 + 4]) = "Invalid"
    THEN ErrOutcome("InvalidElementDataType")
  ELSE Outcome("Some", "", "Dictionary", <<>>,
               [kind |-> "Dictionary", start |-> start + 4,
                values_start |-> 0, count |-> entries,
                string_table |-> string_table,
                hash_key_table |-> hash_key_table])

\* align_up(offset, 4) == offset for a u32 offset.  `value + alignment`
\* overflows for the four largest u32 values: a panic where overflow is
\* checked; where it is not, the wrapped sum gives the same answer as the
\* exact one.
AlignedU32(offset, checks) ==
  [panic |-> checks /\ offset \in -4..-1, aligned |-> offset % 4 = 0]

\* OpenError::StringTable { source }: the table's own error, wrapped.
StringTableError(source) ==
  CASE source = "HeaderOutOfBounds" -> "StringTable{HeaderOutOfBounds}"
    [] source = "AddressTableOutOfBounds" -> "StringTable{AddressTableOutOfBounds}"
    [] OTHER -> ""

\* The table lookup of BymlReader::new (inner fn get_string_table).
OpenTable(d, offset, o, misaligned, checks) ==
  IF offset = 0 THEN [err |-> "", table |-> NoTable]
  ELSE IF AlignedU32(offset, checks).panic
    THEN [err |-> "panic", table |-> NoTable]
  ELSE IF AlignedU32(offset, checks).aligned
    THEN LET t == GetStringTable(d, offset, o)
         IN [err |-> StringTableError(t.err), table |-> t.table]
  ELSE [err |-> misaligned, table |-> NoTable]

\* Mutation of MagicMatches: either magic passes, whatever the reader's order.
MagicMatchesEither(magic, o) == magic \in {<<89, 66>>, <<66, 89>>}

\* match (&header.magic, O::ORDER): b"YB" for little-endian, b"BY" for
\* big-endian.
MagicMatches(magic, o) == magic = (IF o = "LE" THEN <<89, 66>> ELSE <<66, 89>>)

\* BymlReader::<O>::new
ReaderNew(d, o, checks) ==
  IF ~InBounds(d, 0, 16) THEN ErrOutcome("NotEnoughDataForHeader")
  ELSE IF ~MagicMatches(SubSeq(d, 1, 2), o)
    THEN ErrOutcome("EndiannessMismatch")
  ELSE
    LET st == OpenTable(d, DecU32(Slice(d, 8, 4), o), o,
                        "StringTableMisaligned", checks)
        hk == IF st.err # "" THEN st
              ELSE OpenTable(d, DecU32(Slice(d, 4, 4), o), o,
                             "HashKeyTableMisaligned", checks)
        root_node_offset == DecU32(Slice(d, 12, 4), o)
    IN IF st.err = "panic" \/ hk.err = "panic"
         THEN PanicOutcome("attempt to add with overflow")
       ELSE IF st.err # "" THEN ErrOutcome(st.err)
       ELSE IF hk.err # "" THEN ErrOutcome(hk.err)
       ELSE IF root_node_offset = 0
         THEN Outcome("Some", "", "Empty", <<>>, EmptyReader)
       ELSE IF AlignedU32(root_node_offset, checks).panic
         THEN PanicOutcome("attempt to add with overflow")
       ELSE IF ~AlignedU32(root_node_offset, checks).aligned
         THEN ErrOutcome("RootNodeMisaligned")
       ELSE IF ~InBounds(d, root_node_offset, 4) THEN ErrOutcome("RootNodeOutOfBounds")
       ELSE
         LET data_type == DataTypeFromU8(d[root_node_offset + 1])
             entries == DecU24(Slice(d, root_node_offset + 1, 3), o)
         IN CASE data_type = "Invalid" -> ErrOutcome("InvalidDataType")
              [] data_type = "Array" ->
                   ArrayGetComponents(d, entries, root_node_offset, st.table, hk.table)
              [] data_type = "Dictionary" ->
                   DictGetComponents(d, entries, root_node_offset, st.table, hk.table)
              [] OTHER -> ErrOutcome("NonContainerType")

\* The match on data_type shared by BymlReaderArray::get_element and
\* BymlReaderDict::get_element_from_entry.
DecodeElement(d, o, data_type, value, string_table, hash_key_table) ==
  CASE data_type = "String" ->
         IF ~string_table.present THEN ErrOutcome("NoStringTable")
         ELSE LET r == ReadString(d, string_table, value, o)
              IN CASE r.tag = "Ok" -> Outcome("Some", "", "String", r.bytes, EmptyReader)
                   [] r.tag = "Err" -> ErrOutcome(r.err)
                   [] OTHER -> PanicOutcome(r.err)
    [] data_type = "Array" ->
         IF ~InBounds(d, value, 4) THEN ErrOutcome("ValueOutOfBounds")
         ELSE ArrayGetComponents(d, DecU24(Slice(d, value + 1, 3), o), value,
                                 string_table, hash_key_table)
    [] data_type = "Dictionary" ->
         IF ~InBounds(d, value, 4) THEN ErrOutcome("ValueOutOfBounds")
         ELSE DictGetComponents(d, DecU24(Slice(d, value + 1, 3), o), value,
                                string_table, hash_key_table)
    [] data_type = "StringTable" -> ErrOutcome("UnexpectedStringTable")
    [] data_type = "Bool" ->
         Outcome("Some", "", "Bool", <<IF value # 0 THEN 1 ELSE 0>>, EmptyReader)
    [] data_type \in {"I32", "F32", "U32"} ->
         Outcome("Some", "", data_type, <<value>>, EmptyReader)
    [] data_type \in {"I64", "U64", "F64"} ->
         IF ~InBounds(d, value, 8) THEN ErrOutcome("ValueOutOfBounds")
         ELSE Outcome("Some", "", data_type, Dec64(Slice(d, value, 8), o), EmptyReader)
    [] data_type = "Null" -> Outcome("Some", "", "Null", <<>>, EmptyReader)

\* BymlReaderArray::get_element
ArrayGetElement(d, o, array, index) ==
  IF ~(index >= 0 /\ index < array.count) THEN NoneOutcome
  ELSE DecodeElement(d, o,
                     DataTypeFromU8(d[array.start + index + 1]),
                     DecU32(Slice(d, array.values_start + index * 4, 4), o),
                     array.string_table, array.hash_key_table)

\* The DictEntry at position mid of a dictionary.
EntryAt(d, o, dict, mid) ==
  [hash_key_index |-> DecU24(Slice(d, dict.start + mid * 8, 3), o),
   data_type |-> DataTypeFromU8(d[dict.start + mid * 8 + 4]),
   value |-> DecU32(Slice(d, dict.start + mid * 8 + 4, 4), o)]

\* Mutation of LowAfterGreater: the entry after the middle one is skipped.
LowAfterGreaterSkip(mid) == mid + 2

\* Ordering::Greater => low = mid + 1
LowAfterGreater(mid) == mid + 1

\* Mutation of CstrEntriesKey: the key of the first entry is read for every
\* index.
CstrEntriesKeyFirst(d, o, dict, index) ==
  ReadString(d, dict.hash_key_table, EntryAt(d, o, dict, 0).hash_key_index, o)

\* hash_key_table.read_string(self.entries[index].hash_key_index())
CstrEntriesKey(d, o, dict, index) ==
  ReadString(d, dict.hash_key_table, EntryAt(d, o, dict, index).hash_key_index, o)

\* What a lookup that found no entry gives its caller: None, or, within
\* cstr_entries / entries, the panic of `.unwrap()`.
AbsentOutcome(p) ==
  IF p.kind = "entry"
    THEN PanicOutcome("called Option::unwrap() on a None value")
    ELSE NoneOutcome

\* One iteration of the while loop of get_entry_by_key_bytes.
SearchStep(d, o, dict, key, low, high) ==
  LET mid == (low + high) \div 2
  IN IF mid >= dict.count
       THEN [tag |-> "Panic", err |-> "index out of bounds", low |-> low,
             high |-> high, mid |-> mid]
     ELSE
       LET value == ReadString(d, dict.hash_key_table,
                               EntryAt(d, o, dict, mid).hash_key_index, o)
       IN CASE value.tag = "Err" ->
                 [tag |-> "Err", err |-> "HashKeyReadError", low |-> low,
                  high |-> high, mid |-> mid]
            [] value.tag = "Panic" ->
                 [tag |-> "Panic", err |-> value.err, low |-> low,
                  high |-> high, mid |-> mid]
            [] OTHER ->
                 IF BytesLess(key, value.bytes)
                   THEN IF mid = 0
                          THEN [tag |-> "None", err |-> "", low |-> low,
                                high |-> high, mid |-> mid]
                          ELSE [tag |-> "Continue", err |-> "", low |-> low,
                                high |-> mid - 1, mid |-> mid]
                 ELSE IF key = value.bytes
                   THEN [tag |-> "Found", err |-> "", low |-> low,
                         high |-> high, mid |-> mid]
                 ELSE [tag |-> "Continue", err |-> "",
                       low |-> LowAfterGreater(mid), high |-> high, mid |-> mid]

\* BymlReaderDict::get_element_from_entry on the entry the search found.
DictElementFromEntry(d, o, dict, mid) ==
  LET entry == EntryAt(d, o, dict, mid)
  IN DecodeElement(d, o, entry.data_type, entry.value,
                   dict.string_table, dict.hash_key_table)

(***************************************************************************)
(* The documents handed to the writer.                                     *)
(***************************************************************************)
\* "a", "ab", "b", "k"
KeyPool == <<<<97>>, <<97, 98>>, <<98>>, <<107>>>>

\* The keys a lookup may ask for: the pool, "", "aa" and "z".
LookupKeys == {KeyPool[i] : i \in 1..Len(KeyPool)} \cup {<<>>, <<97, 97>>, <<122>>}

Leaves ==
  <<Scalar("U32", 53), Str(<<97>>), Long("U64", <<0, 0, 0, 0, 0, 0, 0, 42>>),
    Scalar("I32", -1), Scalar("Bool", 1), Scalar("F32", 1065353216),
    Str(<<98, 99>>), Long("F64", <<64, 9, 33, 251, 84, 68, 45, 24>>),
    NullNode, Long("I64", <<255, 255, 255, 255, 255, 255, 255, 254>>)>>

LeafAt(i) == Leaves[((i - 1) % Len(Leaves)) + 1]

\* An array of the first n leaves.
ArrayOf(n) == Arr([i \in 1..n |-> LeafAt(i)])

\* A dictionary over the key set K; the value under a key is the leaf four
\* past the key's place in the pool.
DictOf(K) ==
  LET keys == SortedSeq(K)
  IN Dict([i \in 1..Len(keys) |->
             [key |-> keys[i],
              node |-> LeafAt(IndexOf(KeyPool, keys[i]) + 5)]])

\* The arrays of up to MaxArrayLen leaves and the dictionaries of up to
\* MaxDictLen entries over the first n keys of the pool.
FlatTrees(n) ==
  {ArrayOf(k) : k \in 0..MaxArrayLen}
    \cup {DictOf(K) : K \in {L \in SUBSET {KeyPool[i] : i \in 1..n} :
                               Cardinality(L) <= MaxDictLen}}

NestedTrees ==
  {Arr(<<DictOf({KeyPool[4]}), LeafAt(10), ArrayOf(2)>>),
   Arr(<<ArrayOf(1), ArrayOf(1)>>),
   Dict(<<[key |-> KeyPool[1], node |-> ArrayOf(3)],
          [key |-> KeyPool[3], node |-> DictOf({KeyPool[1], KeyPool[4]})],
          [key |-> KeyPool[4], node |-> LeafAt(9)]>>),
   Arr(<<ArrayOf(0), DictOf({}), ArrayOf(0)>>),
   Arr(<<ArrayOf(1), ArrayOf(1), DictOf({}), ArrayOf(0)>>)}

\* One array holding a dictionary and an array.
ReaderNestedTrees == {Arr(<<DictOf({KeyPool[1]}), ArrayOf(1)>>)}

(***************************************************************************)
(* Writing a document, opening it and walking it.                          *)
(***************************************************************************)
NoProbe == [kind |-> "none", index |-> 0, key |-> <<>>]

NoSearch ==
  [key |-> <<>>, low |-> 0, high |-> 0, wrapped |-> FALSE, steps |-> 0,
   mid |-> 0, prev_low |-> 0, prev_high |-> 0, last |-> "none"]

\* The writer node an index or key of w names, Null when it names none.
WriterKid(w, p) ==
  CASE p.kind = "index" /\ w.t = "Array" /\ p.index < Len(w.kids) ->
         w.kids[p.index + 1].node
    [] p.kind \in {"key", "entry"} /\ w.t = "Dictionary"
         /\ (\E i \in 1..Len(w.kids) : w.kids[i].key = p.key) ->
         w.kids[CHOOSE i \in 1..Len(w.kids) : w.kids[i].key = p.key].node
    [] OTHER -> NullNode

Yaz0Idle ==
  /\ pc = "idle"
  /\ result = "none"
  /\ header = <<>>
  /\ input = <<>>
  /\ decomp_size = 0
  /\ capacity = 0
  /\ decomp_data = <<>>
  /\ groups = GroupsEmpty
  /\ read_buffer = <<0, 0, 0>>
  /\ token = NoToken
  /\ output = NoOutput

DocIdle ==
  /\ stage = "idle"
  /\ writer_container = NullNode
  /\ byte_order = "LE"
  /\ reader_order = "LE"
  /\ native_order = "LE"
  /\ format_version = 3
  /\ buffer = <<>>
  /\ edited = FALSE
  /\ cur = EmptyReader
  /\ wcur = NullNode
  /\ probe = NoProbe
  /\ res = NoOutcome
  /\ search = NoSearch
  /\ stack = <<>>
  /\ containers = {}
  /\ hash_order = <<>>
  /\ clone_buffer = <<>>

BymlIdle == DocIdle /\ plan = NoPlan

\* BymlWriter::new is entered with one of the trees: the root is on the stack.
BymlInit(trees, machines, versions, readers) ==
  /\ stage = "new"
  /\ writer_container \in trees
  /\ stack = <<writer_container>>
  /\ containers = {}
  /\ hash_order = <<>>
  /\ clone_buffer = <<>>
  /\ byte_order \in {"LE", "BE"}
  /\ native_order \in machines[byte_order]
  /\ reader_order \in readers[byte_order]
  /\ format_version \in versions
  /\ overflow_checks \in BOOLEAN
  /\ buffer = <<>>
  /\ edited = FALSE
  /\ cur = EmptyReader
  /\ wcur = NullNode
  /\ probe = NoProbe
  /\ res = NoOutcome
  /\ search = NoSearch
  /\ plan = NoPlan
  /\ Yaz0Idle

\* One turn of `while let Some(container) = stack.pop()` in BymlWriter::new.
BymlCollect ==
  /\ stage = "new"
  /\ stack # <<>>
  /\ LET container == stack[Len(stack)]
     IN /\ containers' = containers \cup {container}
        /\ stack' = SubSeq(stack, 1, Len(stack) - 1) \o NestedOf(container)
  /\ UNCHANGED <<stage, writer_container, byte_order, reader_order,
                 native_order, format_version, buffer, edited, cur, wcur,
                 probe, res, search, hash_order, clone_buffer>>
  /\ UNCHANGED plan
  /\ UNCHANGED yaz0Vars

\* The stack is empty: new returns the writer.  From here on the set is
\* iterated in one order.
BymlCollected ==
  /\ stage = "new"
  /\ stack = <<>>
  /\ stage' = "tree"
  /\ hash_order' \in Orders(containers)
  /\ UNCHANGED <<writer_container, byte_order, reader_order, native_order,
                 format_version, buffer, edited, cur, wcur, probe, res,
                 search, stack, containers, clone_buffer>>
  /\ UNCHANGED plan
  /\ UNCHANGED yaz0Vars

\* BymlWriter::write::<O>(&mut Cursor<Vec<u8>>, format_version)
BymlWrite ==
  /\ stage = "tree"
  /\ IF Missed(containers) # ""
       THEN /\ res' = PanicOutcome(Missed(containers))
            /\ stage' = "closed"
            /\ buffer' = buffer
       ELSE /\ \E order \in HashSetIter(containers, hash_order) :
                 buffer' = WriteDoc(writer_container, order, byte_order,
                                    native_order, format_version)
            /\ stage' = "written"
            /\ res' = res
  /\ UNCHANGED <<writer_container, byte_order, reader_order, native_order,
                 format_version, edited, cur, wcur, probe, search>>
  /\ UNCHANGED <<plan, stack, containers, hash_order, clone_buffer>>
  /\ UNCHANGED yaz0Vars

\* A clone of the tree is given to BymlWriter::new and written with the same
\* byte order and version.  The clone's set holds the same containers,
\* inserted in the same sequence.
BymlWriteClone ==
  /\ stage = "written"
  /\ \E order \in HashSetIter(containers, hash_order) :
       clone_buffer' = WriteDoc(writer_container, order, byte_order,
                                native_order, format_version)
  /\ stage' = "cloned"
  /\ UNCHANGED <<writer_container, byte_order, reader_order, native_order,
                 format_version, buffer, edited, cur, wcur, probe, res,
                 search, stack, containers, hash_order>>
  /\ UNCHANGED plan
  /\ UNCHANGED yaz0Vars

\* The words an edit may store: 0, a misaligned offset, the buffer's length,
\* 0xFFFFFFF0, an aligned value past every buffer, and 0xFFFFFFFF.
EditWords(d) == {0, 2, Len(d), -16, -1}

\* The buffer reaches the reader with one aligned word changed.
BymlEdit ==
  /\ stage = "written"
  /\ ~edited
  /\ \E k \in 0..((Len(buffer) \div 4) - 1), w \in EditWords(buffer) :
       /\ Slice(buffer, 4 * k, 4) # EncU32(w, byte_order)
       /\ buffer' = SubSeq(buffer, 1, 4 * k) \o EncU32(w, byte_order)
                    \o SubSeq(buffer, 4 * k + 5, Len(buffer))
  /\ edited' = TRUE
  /\ UNCHANGED <<stage, writer_container, byte_order, reader_order,
                 native_order, format_version, cur, wcur, probe,
                 res, search>>
  /\ UNCHANGED <<plan, stack, containers, hash_order, clone_buffer>>
  /\ UNCHANGED yaz0Vars

\* The versions an edit may store in the header: 0, the one past the greatest
\* supported and the greatest u16.
EditVersions == {0, MAXIMUM_SUPPORTED_VERSION + 1, 65535}

\* The buffer reaches the reader with its header's version field changed.
BymlEditVersion ==
  /\ stage = "written"
  /\ ~edited
  /\ \E v \in EditVersions :
       buffer' = SubSeq(buffer, 1, 2) \o EncU16(v, byte_order)
                   \o SubSeq(buffer, 5, Len(buffer))
  /\ edited' = TRUE
  /\ UNCHANGED <<stage, writer_container, byte_order, reader_order,
                 native_order, format_version, cur, wcur, probe, res, search>>
  /\ UNCHANGED <<plan, stack, containers, hash_order, clone_buffer>>
  /\ UNCHANGED yaz0Vars

\* The numbers of bytes a truncation may drop from the end of the buffer.
TruncateBytes == {1, 4}

\* The buffer reaches the reader without its last bytes.
BymlTruncate ==
  /\ stage = "written"
  /\ ~edited
  /\ \E n \in TruncateBytes : buffer' = SubSeq(buffer, 1, Len(buffer) - n)
  /\ edited' = TRUE
  /\ UNCHANGED <<stage, writer_container, byte_order, reader_order,
                 native_order, format_version, cur, wcur, probe, res, search>>
  /\ UNCHANGED <<plan, stack, containers, hash_order, clone_buffer>>
  /\ UNCHANGED yaz0Vars

\* BymlReader::<O>::new(&buffer)
BymlOpen ==
  /\ stage = "written"
  /\ res' = ReaderNew(buffer, reader_order, overflow_checks)
  /\ IF res'.tag = "Some" /\ res'.t # "Empty"
       THEN /\ stage' = "open"
            /\ cur' = res'.node
            /\ wcur' = writer_container
       ELSE /\ stage' = "closed"
            /\ UNCHANGED <<cur, wcur>>
  /\ probe' = NoProbe
  /\ UNCHANGED <<writer_container, byte_order, reader_order, native_order,
                 format_version, buffer, edited, search>>
  /\ UNCHANGED <<plan, stack, containers, hash_order, clone_buffer>>
  /\ UNCHANGED yaz0Vars

\* BymlReaderArray::get_element(index)
BymlArrayGet ==
  /\ stage = "open"
  /\ cur.kind = "Array"
  /\ \E index \in 0..MaxArrayLen :
       /\ probe' = [kind |-> "index", index |-> index, key |-> <<>>]
       /\ res' = ArrayGetElement(buffer, reader_order, cur, index)
  /\ stage' = IF res'.tag = "Panic" THEN "closed" ELSE "open"
  /\ UNCHANGED <<writer_container, byte_order, reader_order, native_order,
                 format_version, buffer, edited, cur, wcur,
                 search>>
  /\ UNCHANGED <<plan, stack, containers, hash_order, clone_buffer>>
  /\ UNCHANGED yaz0Vars

\* get_entry_by_key_bytes up to its loop: low = 0, high = entries.len() - 1.
\* With no entries the subtraction overflows: a panic where overflow is
\* checked, usize::MAX where it is not.
BymlDictSearch ==
  /\ stage = "open"
  /\ cur.kind = "Dictionary"
  /\ \E key \in LookupKeys :
       /\ probe' = [kind |-> "key", index |-> 0, key |-> key]
       /\ IF cur.count = 0 /\ overflow_checks
            THEN /\ res' = PanicOutcome("attempt to subtract with overflow")
                 /\ stage' = "closed"
                 /\ search' = NoSearch
            ELSE /\ res' = NoOutcome
                 /\ stage' = "search"
                 /\ search' = [NoSearch EXCEPT !.key = key,
                                               !.high = cur.count - 1,
                                               !.wrapped = (cur.count = 0)]
  /\ UNCHANGED <<writer_container, byte_order, reader_order, native_order,
                 format_version, buffer, edited, cur, wcur>>
  /\ UNCHANGED <<plan, stack, containers, hash_order, clone_buffer>>
  /\ UNCHANGED yaz0Vars

\* The closure of cstr_entries / entries for one index of 0..entries.len():
\* the key string of the entry is read, then looked up by
\* get_element_by_key_bytes.
BymlEntriesNext ==
  /\ stage = "open"
  /\ cur.kind = "Dictionary"
  /\ \E index \in 0..(cur.count - 1) :
       LET string == CstrEntriesKey(buffer, reader_order, cur, index)
       IN /\ probe' = [kind |-> "entry", index |-> index, key |-> string.bytes]
          /\ CASE string.tag = "Ok" ->
                    /\ res' = NoOutcome
                    /\ stage' = "search"
                    /\ search' = [NoSearch EXCEPT !.key = string.bytes,
                                                  !.high = cur.count - 1]
               [] string.tag = "Err" ->
                    /\ res' = ErrOutcome("HashKeyReadError")
                    /\ stage' = "open"
                    /\ search' = NoSearch
               [] OTHER ->
                    /\ res' = PanicOutcome(string.err)
                    /\ stage' = "closed"
                    /\ search' = NoSearch
  /\ UNCHANGED <<writer_container, byte_order, reader_order, native_order,
                 format_version, buffer, edited, cur, wcur>>
  /\ UNCHANGED <<plan, stack, containers, hash_order, clone_buffer>>
  /\ UNCHANGED yaz0Vars

\* One test of `low <= high` and, when it holds, one iteration of the loop;
\* get_element_from_entry follows a match.
BymlSearchStep ==
  /\ stage = "search"
  /\ IF search.wrapped
       THEN /\ res' = PanicOutcome("index out of bounds")
            /\ stage' = "closed"
            /\ search' = [search EXCEPT !.steps = @ + 1, !.last = "Panic"]
     ELSE IF ~(search.low <= search.high)
       THEN /\ res' = AbsentOutcome(probe)
            /\ stage' = IF res'.tag = "Panic" THEN "closed" ELSE "open"
            /\ search' = [search EXCEPT !.last = "Exit"]
     ELSE
       LET s == SearchStep(buffer, reader_order, cur, search.key, search.low,
                           search.high)
       IN /\ search' = [search EXCEPT !.low = s.low, !.high = s.high,
                                      !.mid = s.mid, !.steps = @ + 1,
                                      !.prev_low = search.low,
                                      !.prev_high = search.high,
                                      !.last = s.tag]
          /\ CASE s.tag = "Continue" -> /\ res' = NoOutcome
                                        /\ stage' = "search"
               [] s.tag = "Found" ->
                    /\ res' = DictElementFromEntry(buffer, reader_order, cur, s.mid)
                    /\ stage' = IF res'.tag = "Panic" THEN "closed" ELSE "open"
               [] s.tag = "None" ->
                    /\ res' = AbsentOutcome(probe)
                    /\ stage' = IF res'.tag = "Panic" THEN "closed" ELSE "open"
               [] s.tag = "Err" -> /\ res' = ErrOutcome(s.err)
                                   /\ stage' = "open"
               [] OTHER -> /\ res' = PanicOutcome(s.err)
                           /\ stage' = "closed"
  /\ UNCHANGED <<writer_container, byte_order, reader_order, native_order,
                 format_version, buffer, edited, cur, wcur,
                 probe>>
  /\ UNCHANGED <<plan, stack, containers, hash_order, clone_buffer>>
  /\ UNCHANGED yaz0Vars

\* The caller goes on with the container the last get_element returned.
BymlDescend ==
  /\ stage = "open"
  /\ res.tag = "Some"
  /\ res.node.kind \in {"Array", "Dictionary"}
  /\ cur' = res.node
  /\ wcur' = WriterKid(wcur, probe)
  /\ probe' = NoProbe
  /\ res' = NoOutcome
  /\ search' = NoSearch
  /\ UNCHANGED <<stage, writer_container, byte_order, reader_order,
                 native_order, format_version, buffer, edited>>
  /\ UNCHANGED <<plan, stack, containers, hash_order, clone_buffer>>
  /\ UNCHANGED yaz0Vars

\* Writer then reader, on the bytes the writer produced.
BymlNext ==
  \/ BymlCollect
  \/ BymlCollected
  \/ BymlWrite
  \/ BymlWriteClone
  \/ BymlOpen
  \/ BymlArrayGet
  \/ BymlDictSearch
  \/ BymlEntriesNext
  \/ BymlSearchStep
  \/ BymlDescend

\* The reader on a buffer that need not come from the writer unchanged.
BymlReaderNext ==
  \/ BymlCollect
  \/ BymlCollected
  \/ BymlWrite
  \/ BymlEdit
  \/ BymlEditVersion
  \/ BymlTruncate
  \/ BymlOpen
  \/ BymlArrayGet
  \/ BymlDictSearch
  \/ BymlEntriesNext
  \/ BymlSearchStep
  \/ BymlDescend

\* decompress is called on a stream; no BYML document is in play.
Yaz0Init ==
  /\ pc = "start"
  /\ result = "none"
  /\ overflow_checks \in BOOLEAN
  /\ header = <<>>
  /\ input = <<>>
  /\ decomp_size = 0
  /\ capacity = 0
  /\ decomp_data = <<>>
  /\ groups = GroupsEmpty
  /\ read_buffer = <<0, 0, 0>>
  /\ token = NoToken
  /\ output = NoOutput
  /\ BymlIdle

SpecYaz0 == Yaz0Init /\ [][Yaz0Next]_vars

\* Either byte order, whatever the document's.
AnyMachine == [o \in {"LE", "BE"} |-> {"LE", "BE"}]

\* The document's own byte order.
SameOrderMachine == [o \in {"LE", "BE"} |-> {o}]

\* Written on any machine, in either version; read in the byte order written.
SpecByml ==
  BymlInit(FlatTrees(4) \cup NestedTrees, AnyMachine, {2, 3}, SameOrderMachine)
    /\ [][BymlNext]_vars

\* Written on a machine of the document's byte order; read in either order.
SpecBymlReader ==
  BymlInit(FlatTrees(4) \cup ReaderNestedTrees, SameOrderMachine, {3},
           AnyMachine)
    /\ [][BymlReaderNext]_vars

\* BymlWriter::new, then write: a call of new runs until it returns.
BymlNewNext ==
  \/ BymlCollect
  \/ BymlCollected
  \/ BymlWrite

SpecBymlNew ==
  BymlInit(FlatTrees(4) \cup NestedTrees, AnyMachine, {2, 3}, SameOrderMachine)
    /\ [][BymlNewNext]_vars
    /\ WF_vars(BymlCollect \/ BymlCollected)

(***************************************************************************)
(* write on trees whose sizes reach the limits of u32.                     *)
(***************************************************************************)
\* The greatest number of containers of such a tree.
MaxPlanContainers == 2

\* Containers of few and of very many elements.
PlanContainers ==
  {[t |-> "Array", len |-> 0, longs |-> 0, top_key |-> 0],
   [t |-> "Array", len |-> 4, longs |-> 1, top_key |-> 0],
   [t |-> "Array", len |-> EntriesLimit - 1, longs |-> 0, top_key |-> 0],
   [t |-> "Array", len |-> EntriesLimit, longs |-> 0, top_key |-> 0],
   [t |-> "Array", len |-> 2^29, longs |-> 0, top_key |-> 0],
   [t |-> "Dictionary", len |-> 1, longs |-> 1, top_key |-> 0],
   [t |-> "Dictionary", len |-> EntriesLimit - 1, longs |-> 0,
    top_key |-> EntriesLimit],
   [t |-> "Dictionary", len |-> 2^29 - 1, longs |-> 0, top_key |-> 2^29 - 2],
   [t |-> "Dictionary", len |-> 2^29, longs |-> 0, top_key |-> 2^29 - 1]}

\* (count, total length in words) of the key table and of the string table.
PlanKeyTables ==
  {<<0, 0>>, <<1, 1>>, <<EntriesLimit + 1, 2^22 + 1>>, <<2^29, 2^28>>,
   <<1, U32Words - 7>>, <<1, U32Words - 4>>, <<1, U32Words - 3>>}

PlanStringTables ==
  {<<0, 0>>, <<1, 1>>, <<EntriesLimit, 2^22>>, <<1, U32Words - 9>>}

RECURSIVE SumOver(_, _, _)
SumOver(shape, i, kind) ==
  IF i > Len(shape) THEN 0
  ELSE SumOver(shape, i + 1, kind)
         + (CASE kind = "entries" -> IF shape[i].t = "Dictionary"
                                       THEN shape[i].len ELSE 0
              [] kind = "leaves" -> shape[i].len - shape[i].longs
              [] kind = "longs" -> shape[i].longs)

\* The key and string counts fit the containers: every key is the key of
\* some entry, every string the value of some element, and an entry's key
\* index is below the number of keys.
PlanConsistent(p) ==
  /\ p.keys_count <= SumOver(p.shape, 1, "entries")
  /\ p.strings_count <= SumOver(p.shape, 1, "leaves")
  /\ \A i \in 1..Len(p.shape) :
       (p.shape[i].t = "Dictionary" /\ p.shape[i].len > 0)
         => p.shape[i].top_key < p.keys_count

\* A BymlWriter whose container set is iterated as `shape`, root at `root`.
PlanInit ==
  /\ overflow_checks \in BOOLEAN
  /\ \E n \in 1..MaxPlanContainers :
       \E shape \in [1..n -> PlanContainers], root \in 1..n,
          k \in PlanKeyTables, t \in PlanStringTables :
         /\ plan = [NoPlan EXCEPT !.pc = "start", !.shape = shape,
                                  !.root = root, !.keys_count = k[1],
                                  !.keys_len = k[2], !.strings_count = t[1],
                                  !.strings_len = t[2]]
         /\ PlanConsistent(plan)
  /\ DocIdle
  /\ Yaz0Idle

\* write up to the construction of the header (no byte is written yet).
PlanCompute ==
  /\ plan.pc = "start"
  /\ LET o == PlanOffsets(plan, overflow_checks)
     IN plan' = [plan EXCEPT !.offsets = o,
                             !.pc = IF o.tag = "Ok" THEN "header" ELSE "done",
                             !.result = IF o.tag = "Ok" THEN "none" ELSE o.tag]
  /\ UNCHANGED <<yaz0Vars, docVars>>

\* The header and the two tables are written; long_offset is computed.
PlanWriteTables ==
  /\ plan.pc = "header"
  /\ LET o == plan.offsets
         keys == WriteTableWords(4, o.hash_key_offset, plan.keys_count,
                                 plan.keys_len)
         strings == WriteTableWords(keys.sink_len, o.string_table_offset,
                                    plan.strings_count, plan.strings_len)
         long_offset == CheckedAddWords(o.nodes_start_offset, o.container_offset)
     IN IF keys.tag # "Ok"
          THEN plan' = [plan EXCEPT !.pc = "done", !.result = keys.tag,
                                    !.sink_len = keys.sink_len]
        ELSE IF strings.tag # "Ok"
          THEN plan' = [plan EXCEPT !.pc = "done", !.result = strings.tag,
                                    !.sink_len = strings.sink_len]
        ELSE IF long_offset < 0
          THEN plan' = [plan EXCEPT !.pc = "done", !.result = "Overflowed",
                                    !.sink_len = strings.sink_len]
        ELSE plan' = [plan EXCEPT !.pc = "emit", !.next = 1,
                                  !.long_offset = long_offset,
                                  !.sink_len = strings.sink_len]
  /\ UNCHANGED <<yaz0Vars, docVars>>

\* One turn of the emission loop.
PlanEmit ==
  /\ plan.pc = "emit"
  /\ plan.next <= Len(plan.shape)
  /\ LET e == EmitWords(plan.shape[plan.next],
                        plan.offsets.nodes_start_offset
                          + OffsetBefore(plan.shape, plan.next),
                        plan.long_offset, plan.sink_len)
     IN plan' = [plan EXCEPT !.sink_len = e.sink_len,
                             !.long_offset = e.long_offset,
                             !.next = IF e.tag = "Ok" THEN @ + 1 ELSE @,
                             !.pc = IF e.tag = "Ok" THEN "emit" ELSE "done",
                             !.result = IF e.tag = "Ok" THEN "none" ELSE e.tag]
  /\ UNCHANGED <<yaz0Vars, docVars>>

\* writer.flush()?; Ok(())
PlanFinish ==
  /\ plan.pc = "emit"
  /\ plan.next > Len(plan.shape)
  /\ plan' = [plan EXCEPT !.pc = "done", !.result = "Ok"]
  /\ UNCHANGED <<yaz0Vars, docVars>>

PlanNext ==
  \/ PlanCompute
  \/ PlanWriteTables
  \/ PlanEmit
  \/ PlanFinish

SpecBymlPlan == PlanInit /\ [][PlanNext]_vars

(***************************************************************************)
(* Properties of the BYML writer and reader (checked under SpecByml and    *)
(* SpecBymlReader).                                                        *)
(***************************************************************************)
\* The reader's answer r carries the type tag, value and nesting of the
\* writer node w.
SameContent(w, r) ==
  /\ r.tag = "Some"
  /\ r.t = w.t
  /\ IF IsContainer(w)
       THEN r.node.kind = w.t /\ r.node.count = Len(w.kids)
       ELSE r.v = w.v

\* The last probe of cur asked for an element the writer's container holds.
ProbeNamesKid ==
  \/ probe.kind = "index" /\ wcur.t = "Array" /\ probe.index < Len(wcur.kids)
  \/ /\ probe.kind = "key" /\ wcur.t = "Dictionary"
     /\ \E i \in 1..Len(wcur.kids) : wcur.kids[i].key = probe.key

\* C1: whatever tree was written and in whichever byte order, the reader of
\* that byte order opens the written bytes, and every element of the tree,
\* asked for by its index or key along the path from the root, comes back
\* with the tree's type tag, value and nesting.
BymlRoundTrip ==
  ~edited =>
    /\ (stage = "closed" /\ probe.kind = "none") => SameContent(writer_container, res)
    /\ (stage \in {"open", "closed"} /\ ProbeNamesKid /\ res.tag # "none")
         => SameContent(WriterKid(wcur, probe), res)

\* The key string of entry i of the dictionary in hand.
KeyAt(i) ==
  ReadString(buffer, cur.hash_key_table,
             EntryAt(buffer, reader_order, cur, i).hash_key_index, reader_order)

\* cur is a dictionary of at least one entry whose keys all resolve and are
\* strictly increasing.
SortedDict ==
  /\ cur.kind = "Dictionary"
  /\ cur.count >= 1
  /\ \A i \in 0..(cur.count - 1) : KeyAt(i).tag = "Ok"
  /\ \A i \in 0..(cur.count - 2) : BytesLess(KeyAt(i).bytes, KeyAt(i + 1).bytes)

\* A lookup by key has returned.
LookupReturned ==
  stage \in {"open", "closed"} /\ probe.kind = "key" /\ res.tag # "none"

\* C2: on a dictionary of one or more entries strictly sorted by key, a lookup
\* of k returns the element of the entry whose key is k when there is one and
\* None when there is none; every iteration that goes on leaves at most half
\* of the interval [low, high], and an exact match ends the search.
DictSearchCorrect ==
  SortedDict =>
    /\ LookupReturned =>
         IF \E i \in 0..(cur.count - 1) : KeyAt(i).bytes = probe.key
           THEN /\ search.last = "Found"
                /\ KeyAt(search.mid).bytes = probe.key
                /\ res = DictElementFromEntry(buffer, reader_order, cur, search.mid)
           ELSE res = NoneOutcome
    /\ (probe.kind = "key" /\ search.last = "Continue") =>
         2 * (search.high - search.low + 1)
           <= search.prev_high - search.prev_low + 1
    /\ search.last = "Found" => stage # "search"

\* A key of a three-entry sorted dictionary found on the second iteration.
DictSearchFoundAfterHalving ==
  /\ SortedDict
  /\ cur.count = 3
  /\ LookupReturned
  /\ search.last = "Found"
  /\ search.steps = 2
  /\ res.tag = "Some"

\* C3: on a dictionary of zero entries a lookup by any key computes no
\* `count - 1` that wraps, never panics and returns None.
EmptyDictLookupIsNone ==
  (cur.kind = "Dictionary" /\ cur.count = 0 /\ probe.kind = "key") =>
    /\ ~search.wrapped
    /\ stage # "search" => res = NoneOutcome

\* The type tag of element `index` of the array in hand.
TypeTagAt(index) == DataTypeFromU8(buffer[cur.start + index + 1])

\* C4: get_element(index) of an array returns Ok(None) for every index at or
\* past the element count; for an index below the count it returns Some(node)
\* of the type its tag names, or a typed error.
ArrayGetElementOutcome ==
  (cur.kind = "Array" /\ probe.kind = "index" /\ res.tag # "none") =>
    IF probe.index >= cur.count
      THEN res = NoneOutcome
      ELSE \/ res.tag = "Some" /\ res.t = TypeTagAt(probe.index)
           \/ res.tag = "Err"

\* BymlReader::new has returned for the buffer.
Opened == stage \in {"open", "search", "closed"}

\* The header's string-table, hash-key-table and root offsets as the reader
\* reads them.
HeaderOffset(field) ==
  DecU32(Slice(buffer, CASE field = "hash_key" -> 4
                         [] field = "string_table" -> 8
                         [] field = "root" -> 12, 4), reader_order)

\* C12: a buffer of 16 bytes or more whose first two bytes are not 'YB' for a
\* little-endian reader, or 'BY' for a big-endian one, is refused by
\* BymlReader::new with EndiannessMismatch, whatever its offsets hold.
BymlMagicChecked ==
  (/\ Opened
   /\ Len(buffer) >= 16
   /\ SubSeq(buffer, 1, 2) # (IF reader_order = "LE" THEN <<89, 66>>
                                                     ELSE <<66, 89>>))
    => /\ stage = "closed"
       /\ res = ErrOutcome("EndiannessMismatch")

\* A document read in the other byte order: refused for its magic although
\* its string-table offset, so read, lies outside the buffer.
BymlMagicRefusedFirst ==
  /\ stage = "closed"
  /\ res = ErrOutcome("EndiannessMismatch")
  /\ reader_order # byte_order
  /\ ~InBounds(buffer, HeaderOffset("string_table"), 4)

\* The buffer starts with the magic of the reader's byte order.
OwnMagic ==
  SubSeq(buffer, 1, 2) = (IF reader_order = "LE" THEN <<89, 66>> ELSE <<66, 89>>)

\* The header's version field as the reader's byte order gives it.
HeaderVersion ==
  IF reader_order = "LE" THEN buffer[4] * 256 + buffer[3]
                         ELSE buffer[3] * 256 + buffer[4]

\* C13: a document that carries the reader's magic and a version greater than
\* MAXIMUM_SUPPORTED_VERSION is refused by BymlReader::new with
\* UnsupportedVersion.
BymlVersionChecked ==
  (Opened /\ OwnMagic /\ HeaderVersion > MAXIMUM_SUPPORTED_VERSION)
    => /\ stage = "closed"
       /\ res = ErrOutcome("UnsupportedVersion")

\* res is what BymlReader::new returned.
OpenReturned == Opened /\ probe.kind = "none" /\ res.tag # "none"

\* The table at a header offset is absent, or aligned and read without error.
TablePasses(offset) ==
  \/ offset = 0
  \/ offset % 4 = 0 /\ GetStringTable(buffer, offset, reader_order).err = ""

\* C14: a table is absent exactly when its header offset is zero; a non-zero
\* string-table, hash-key-table or root offset that is not a multiple of 4
\* makes BymlReader::new fail with StringTableMisaligned,
\* HashKeyTableMisaligned or RootNodeMisaligned (the first of them in that
\* order); a zero root offset gives the Empty document.
BymlOffsetsZeroOrAligned ==
  (OpenReturned /\ OwnMagic) =>
    LET st == HeaderOffset("string_table")
        hk == HeaderOffset("hash_key")
        rt == HeaderOffset("root")
    IN /\ (st # 0 /\ st % 4 # 0) => res = ErrOutcome("StringTableMisaligned")
       /\ (TablePasses(st) /\ hk # 0 /\ hk % 4 # 0)
            => res = ErrOutcome("HashKeyTableMisaligned")
       /\ (TablePasses(st) /\ TablePasses(hk) /\ rt = 0)
            => res = Outcome("Some", "", "Empty", <<>>, EmptyReader)
       /\ (TablePasses(st) /\ TablePasses(hk) /\ rt # 0 /\ rt % 4 # 0)
            => res = ErrOutcome("RootNodeMisaligned")
       /\ (res.tag = "Some" /\ res.t # "Empty")
            => /\ res.node.string_table.present = (st # 0)
               /\ res.node.hash_key_table.present = (hk # 0)

\* C15: a string-table or hash-key-table offset equal to the buffer length
\* (a multiple of 4) makes BymlReader::new fail with the table's
\* HeaderOutOfBounds error, a root offset equal to the buffer length with
\* RootNodeOutOfBounds; no reader is returned for such a document.
BymlOffsetAtEndRefused ==
  (OpenReturned /\ OwnMagic /\ Len(buffer) % 4 = 0) =>
    LET st == HeaderOffset("string_table")
        hk == HeaderOffset("hash_key")
        rt == HeaderOffset("root")
        end == Len(buffer)
    IN /\ st = end => res = ErrOutcome("StringTable{HeaderOutOfBounds}")
       /\ (TablePasses(st) /\ hk = end)
            => res = ErrOutcome("StringTable{HeaderOutOfBounds}")
       /\ (TablePasses(st) /\ TablePasses(hk) /\ rt = end)
            => res = ErrOutcome("RootNodeOutOfBounds")
       /\ (end \in {st, hk, rt}) => res.tag # "Some"

\* A document whose string-table offset is the buffer length has been refused.
BymlStringTableAtEndRefused ==
  /\ OpenReturned /\ OwnMagic
  /\ Len(buffer) % 4 = 0
  /\ HeaderOffset("string_table") = Len(buffer)
  /\ res = ErrOutcome("StringTable{HeaderOutOfBounds}")

\* get_element has just read element probe.index of the array in hand, a
\* string, through the document's string table.
StringElementRead ==
  /\ cur.kind = "Array" /\ probe.kind = "index" /\ res.tag # "none"
  /\ probe.index < cur.count
  /\ TypeTagAt(probe.index) = "String"
  /\ cur.string_table.present

\* The string index held by the value slot of element probe.index.
StringIndexRead ==
  DecU32(Slice(buffer, cur.values_start + probe.index * 4, 4), reader_order)

\* C16: read_string(index) never panics: it fails with
\* OffsetEntryOutOfBounds for an index at or past the entry count, with
\* OffsetOutsideOfStringData when base + offsets[index] lies outside the
\* buffer, with UnterminatedString when no zero byte follows that position,
\* and otherwise returns the bytes up to the first zero byte.
ReadStringOutcome ==
  StringElementRead =>
    LET table == cur.string_table
        index == StringIndexRead
        rel == DecU32(Slice(buffer, table.start_offset + 4 + index * 4, 4),
                      reader_order)
        at == table.start_offset + rel
    IN /\ res.tag # "Panic"
       /\ IF ~(index >= 0 /\ index < table.entries)
            THEN res = ErrOutcome("OffsetEntryOutOfBounds")
          ELSE IF rel < 0 \/ at > Len(buffer)
            THEN res = ErrOutcome("OffsetOutsideOfStringData")
          ELSE IF NulFrom(buffer, at) < 0
            THEN res \in {ErrOutcome("UnterminatedString"),
                          ErrOutcome("OffsetOutsideOfStringData")}
          ELSE res = Outcome("Some", "", "String",
                             Slice(buffer, at, NulFrom(buffer, at) - at),
                             EmptyReader)

\* get_element has just decoded a slot of the container in hand: an array
\* element by index, or the dictionary entry the search matched.
SlotDecoded ==
  \/ /\ cur.kind = "Array" /\ probe.kind = "index" /\ res.tag # "none"
     /\ probe.index < cur.count
  \/ /\ cur.kind = "Dictionary" /\ probe.kind = "key"
     /\ search.last = "Found"

\* The type tag and the value of that slot.
SlotType ==
  IF cur.kind = "Array" THEN TypeTagAt(probe.index)
  ELSE EntryAt(buffer, reader_order, cur, search.mid).data_type

SlotValue ==
  IF cur.kind = "Array"
    THEN DecU32(Slice(buffer, cur.values_start + probe.index * 4, 4), reader_order)
    ELSE EntryAt(buffer, reader_order, cur, search.mid).value

\* The `size` bytes at offset `a` lie inside the buffer.
Fits(a, size) == a >= 0 /\ a + size <= Len(buffer)

WriterContainers == Reachable(writer_container)

\* The orders of the container set for which write produces the buffer.
WrittenOrders ==
  {order \in Orders(WriterContainers) :
     buffer = WriteDoc(writer_container, order, byte_order, native_order,
                       format_version)}

\* Where write puts container c when the set is iterated in `order`.
WrittenAt(order, c) ==
  TableOffsets(WriterContainers).nodes_start
    + ContainerOffset(order, IndexOf(order, c) + 1)

\* The strings stored in the table at `offset`, in the order they lie in the
\* buffer: `n` zero-terminated strings that follow the n + 1 offsets.
RECURSIVE StringsFrom(_, _)
StringsFrom(at, n) ==
  IF n = 0 THEN <<>>
  ELSE <<Slice(buffer, at, NulFrom(buffer, at) - at)>>
         \o StringsFrom(NulFrom(buffer, at) + 1, n - 1)

TableStrings(offset) ==
  LET n == DecU24(Slice(buffer, offset + 1, 3), byte_order)
  IN StringsFrom(offset + 4 + (n + 1) * 4, n)

\* The 24-bit key index of entry i (from 1) of the dictionary written at a.
KeyIndexAt(a, i) == DecU24(Slice(buffer, a + 4 + (i - 1) * 8, 3), byte_order)

\* C18: in the bytes write produces, the entries of every dictionary lie in
\* strictly increasing order of their key bytes, one per entry of the node,
\* and the key index of each entry is the position of its key in the key
\* table, whose strings are in increasing order; the key indices of one
\* dictionary are strictly increasing.
DictEntriesInKeyOrder ==
  stage = "written" =>
    \A order \in WrittenOrders :
      \A c \in {x \in WriterContainers : x.t = "Dictionary"} :
        LET a == WrittenAt(order, c)
            n == Len(c.kids)
            keys == TableStrings(16)
        IN /\ Slice(buffer, a, 4) = ContainerHeaderBytes("Dictionary", n, byte_order)
           /\ \A i \in 1..n :
                /\ KeyIndexAt(a, i) < Len(keys)
                /\ keys[KeyIndexAt(a, i) + 1] = c.kids[i].key
                /\ Cardinality({k \in 1..Len(keys) :
                                  BytesLess(keys[k], c.kids[i].key)})
                     = KeyIndexAt(a, i)
           /\ \A i \in 1..(n - 1) :
                /\ KeyIndexAt(a, i) < KeyIndexAt(a, i + 1)
                /\ BytesLess(keys[KeyIndexAt(a, i) + 1],
                             keys[KeyIndexAt(a, i + 1) + 1])

\* A document has been written whose root dictionary of three entries holds
\* a dictionary of two.
NestedDictWritten ==
  /\ stage = "written"
  /\ WrittenOrders # {}
  /\ writer_container.t = "Dictionary"
  /\ \E c \in WriterContainers \ {writer_container} :
       c.t = "Dictionary" /\ Len(c.kids) >= 2
  /\ Len(writer_container.kids) = 3

\* The value slot of element or entry i (from 1) of container c written at a,
\* at the place the format gives it: after the type tags padded to a multiple
\* of 4 for an array, the last four bytes of the entry for a dictionary.
ValueSlotAt(a, c, i) ==
  IF c.t = "Array"
    THEN DecU32(Slice(buffer, a + 4 + AlignUp(Len(c.kids), 4) + (i - 1) * 4, 4),
                byte_order)
    ELSE DecU32(Slice(buffer, a + 4 + (i - 1) * 8 + 4, 4), byte_order)

\* C19: in the bytes write produces, the key table holds the distinct keys
\* and the value string table the distinct string values, each once and in
\* increasing byte order, and the value slot of every string node holds the
\* position of the node's string in the value string table.
StringTablesSortedAndIndexed ==
  stage = "written" =>
    \A order \in WrittenOrders :
      LET keys == KeysOf(WriterContainers)
          strings == StringsOf(WriterContainers)
          at == TableOffsets(WriterContainers)
      IN /\ keys # {} => TableStrings(at.hash_key) = SortedSeq(keys)
         /\ strings # {} => TableStrings(at.string_table) = SortedSeq(strings)
         /\ \A c \in WriterContainers :
              \A i \in 1..Len(c.kids) :
                c.kids[i].node.t = "String" =>
                  ValueSlotAt(WrittenAt(order, c), c, i)
                    = IndexOf(SortedSeq(strings), c.kids[i].node.v)

\* C20: containers of equal content are one container to the writer: it is
\* written once, at one offset, and every value slot of a node that refers to
\* it holds that offset; containers that differ, an empty array and an empty
\* dictionary among them, lie at different offsets.
ContainersDeduplicated ==
  stage = "written" =>
    \A order \in WrittenOrders :
      /\ \A c \in WriterContainers :
           /\ Slice(buffer, WrittenAt(order, c), 4)
                = ContainerHeaderBytes(c.t, Len(c.kids), byte_order)
           /\ \A i \in 1..Len(c.kids) :
                IsContainer(c.kids[i].node) =>
                  ValueSlotAt(WrittenAt(order, c), c, i)
                    = WrittenAt(order, c.kids[i].node)
      /\ \A c, e \in WriterContainers :
           c # e => WrittenAt(order, c) # WrittenAt(order, e)

\* The header word at byte `at` of the written document, in its byte order.
WrittenHeaderWord(at) == DecU32(Slice(buffer, at, 4), byte_order)

\* C21: a written document whose dictionaries have no entries carries zero in
\* its key-table offset field, and one whose tree has no string values carries
\* zero in its string-table offset field.
AbsentTablesHaveZeroOffset ==
  stage = "written" =>
    /\ KeysOf(WriterContainers) = {} => WrittenHeaderWord(4) = 0
    /\ StringsOf(WriterContainers) = {} => WrittenHeaderWord(8) = 0

\* C22: the bytes of a written document do not depend on the host's byte
\* order: every multi-byte integer in them is encoded in the document's byte
\* order, so they are the bytes a host of that byte order writes.
WrittenInDocumentOrder ==
  stage = "written" =>
    \E order \in Orders(WriterContainers) :
      buffer = WriteDoc(writer_container, order, byte_order, byte_order,
                        format_version)

(***************************************************************************)
(* Properties of write at the limits of u32 (checked under SpecBymlPlan).  *)
(***************************************************************************)
\* An addition of word counts that stops at U32Words, the first value that
\* does not fit a u32.
CapAdd(a, b) ==
  IF a >= U32Words \/ b >= U32Words \/ a + b >= U32Words THEN U32Words
  ELSE a + b

RECURSIVE TrueContainersSize(_, _)
TrueContainersSize(shape, i) ==
  IF i > Len(shape) THEN 0
  ELSE CapAdd(InlineWords(shape[i]), TrueContainersSize(shape, i + 1))

TrueTableTotal(count, table_len) ==
  IF count = 0 THEN 0 ELSE CapAdd(CapAdd(1, count + 1), table_len)

\* Some size or offset of the plan, computed exactly, does not fit a u32: a
\* container's size, the size of all containers with or without their long
\* values, a table's total, the start of the string table or of the node
\* region, the root offset, or the offset of a long value.
PlanTrueExceeds(p) ==
  LET total == TrueContainersSize(p.shape, 1)
      longs == SumOver(p.shape, 1, "longs")
      string_table == CapAdd(4, TrueTableTotal(p.keys_count, p.keys_len))
      nodes == CapAdd(string_table,
                      TrueTableTotal(p.strings_count, p.strings_len))
      arena == CapAdd(nodes, total)
  IN \/ total = U32Words
     \/ CapAdd(total, 2 * longs) = U32Words
     \/ nodes = U32Words
     \/ arena = U32Words
     \/ longs > 0 /\ CapAdd(arena, 2 * (longs - 1)) = U32Words

\* C23: write computes no offset by wrapped arithmetic, and when a size or
\* offset of the document does not fit a u32 it returns Overflowed.
PlanOverflowChecked ==
  /\ ~plan.offsets.wrapped
  /\ (plan.pc = "done" /\ PlanTrueExceeds(plan)) => plan.result = "Overflowed"


\* C27: when write returns Overflowed, no byte has been written to the sink.
OverflowedBeforeEmission ==
  plan.result = "Overflowed" => plan.sink_len = 0

SlotWordOf(order, n) ==
  CASE IsContainer(n) -> WrittenAt(order, n)
    [] n.t = "Bool" -> IF n.v[1] # 0 THEN 1 ELSE 0
    [] n.t \in {"I32", "F32", "U32"} -> n.v[1]
    [] n.t = "String" -> IndexOf(SortedSeq(StringsOf(WriterContainers)), n.v)
    [] OTHER -> 0

\* C25: every array of n elements written at offset a has its header at a,
\* its n type tags at a + 4 and its n value slots from a + 4 + align_up(n, 4)
\* on, where the reader looks for them, so that all its bytes lie within
\* [a, a + inline_size).  A slot is recognised by its word in either byte
\* order.
ArrayLayoutWritten ==
  stage = "written" =>
    \A order \in WrittenOrders :
      \A c \in {x \in WriterContainers : x.t = "Array"} :
        LET a == WrittenAt(order, c)
            n == Len(c.kids)
        IN /\ a + InlineSize(c) <= Len(buffer)
           /\ Slice(buffer, a, 4) = ContainerHeaderBytes("Array", n, byte_order)
           /\ \A i \in 1..n : buffer[a + 4 + i] = NodeDataType(c.kids[i].node)
           /\ \A i \in 1..n :
                c.kids[i].node.t \notin {"I64", "U64", "F64"} =>
                  Slice(buffer, a + 4 + AlignUp(n, 4) + (i - 1) * 4, 4)
                    \in {EncU32(SlotWordOf(order, c.kids[i].node), o) :
                           o \in {"LE", "BE"}}

IsLong(n) == n.t \in {"I64", "U64", "F64"}

\* How many of the first k elements of container c are 64-bit values.
LongsAmong(c, k) == Cardinality({i \in 1..k : IsLong(c.kids[i].node)})

\* How many 64-bit values the emission loop has written before it reaches
\* element i of the j-th container of `order`.
RECURSIVE LongsBefore(_, _, _)
LongsBefore(order, j, i) ==
  (IF j = 1 THEN 0
   ELSE LongsBefore(order, j - 1, Len(order[j - 1].kids) + 1))
    + LongsAmong(order[j], i - 1)

\* The four bytes of the value slot of element or entry i of container c
\* written at a.
ValueSlotBytes(a, c, i) ==
  IF c.t = "Array"
    THEN Slice(buffer, a + 4 + AlignUp(Len(c.kids), 4) + (i - 1) * 4, 4)
    ELSE Slice(buffer, a + 4 + (i - 1) * 8 + 4, 4)

\* C26: the 64-bit values lie one after another, eight bytes each, from the
\* end of the containers on, in the order the emission loop meets them; the
\* value slot of each 64-bit node holds the offset of its value (recognised
\* in either byte order), and the containers written after it are where
\* they belong.
LongArenaWritten ==
  stage = "written" =>
    \A order \in WrittenOrders :
      LET arena == TableOffsets(WriterContainers).nodes_start
                     + ContainerOffset(order, Len(order) + 1)
      IN \A j \in 1..Len(order) :
           LET c == order[j]
               a == WrittenAt(order, c)
           IN /\ a + InlineSize(c) <= arena
              /\ Slice(buffer, a, 4)
                   = ContainerHeaderBytes(c.t, Len(c.kids), byte_order)
              /\ \A i \in 1..Len(c.kids) :
                   IsLong(c.kids[i].node) =>
                     LET at == arena + 8 * LongsBefore(order, j, i)
                     IN /\ at + 8 <= Len(buffer)
                        /\ Slice(buffer, at, 8)
                             = Enc64(c.kids[i].node.v, byte_order)
                        /\ ValueSlotBytes(a, c, i)
                             \in {EncU32(at, o) : o \in {"LE", "BE"}}

(***************************************************************************)
(* Properties of BymlReaderDict::cstr_entries and entries.                 *)
(***************************************************************************)
\* The closure of cstr_entries / entries has returned for index probe.index.
EntryYielded ==
  stage \in {"open", "closed"} /\ probe.kind = "entry" /\ res.tag # "none"

WrittenTables ==
  {TableOffsets(WriterContainers).hash_key : x \in KeysOf(WriterContainers)}
    \cup {TableOffsets(WriterContainers).string_table :
            x \in StringsOf(WriterContainers)}

\* Offset i (from 0) of the table at `at`, read in the byte order in which
\* the machine wrote it.
TableOffsetAt(at, i) ==
  DecU32(Slice(buffer, at + 4 + i * 4, 4), native_order)

\* C29: a written table of n strings has n + 1 offsets relative to its start:
\* the first string starts after the header and the offsets, each further
\* offset is the one before plus the stored length, terminator included, of
\* the string before, and so is the final one.
StringTableOffsetsWritten ==
  stage = "written" =>
    \A at \in WrittenTables :
      LET strings == TableStrings(at)
          n == Len(strings)
      IN /\ TableOffsetAt(at, 0) = 4 + (n + 1) * 4
         /\ \A i \in 1..n :
              TableOffsetAt(at, i)
                = TableOffsetAt(at, i - 1) + Len(strings[i]) + 1

\* While new runs, what it has collected and what it has yet to visit are
\* containers of the tree; once it has returned, its set is the root and
\* every array and dictionary nested in it at any depth, and each lookup of
\* the emission pass finds its entry.
CollectedAllReachable ==
  /\ stage = "new" =>
       /\ containers \subseteq Reachable(writer_container)
       /\ \A i \in 1..Len(stack) : stack[i] \in Reachable(writer_container)
  /\ stage \in {"tree", "written", "closed"} =>
       /\ containers = Reachable(writer_container)
       /\ Missed(containers) = ""
       /\ res.tag # "Panic"

FormatCopyLength ==
  IF token.form = "long" THEN read_buffer[3] + 18
                         ELSE (read_buffer[1] \div 16) + 2

\* C5: the output never grows past the declared size, an iteration only runs
\* while the output is shorter than the declared size, every Ok return has
\* exactly the declared size, and a declared size of 0 returns an empty
\* buffer with no body byte read.
Yaz0OutputWithinDeclaredSize ==
  /\ pc # "start" => Len(decomp_data) <= decomp_size
  /\ token.kind # "none" => token.before < decomp_size
  /\ result = "Ok" =>
       /\ output.returned
       /\ output.bytes = decomp_data
       /\ Len(output.bytes) = decomp_size
  /\ (result = "Ok" /\ decomp_size = 0) => (input = <<>> /\ output.bytes = <<>>)
  /\ (pc = "done" /\ result # "Ok") => ~output.returned

\* C5 witness: a successful return whose last token was a back-reference
\* that filled the buffer exactly.
Yaz0FilledByCopy ==
  /\ result = "Ok"
  /\ token.kind = "Copy"
  /\ token.before + token.copy_count = decomp_size
  /\ Len(output.bytes) = decomp_size

\* C6: an accepted back-reference of distance d and length n appends n bytes,
\* each equal to the output byte d positions before it.
Yaz0CopyReplicates ==
  (token.kind = "Copy" /\ token.start >= 0) =>
    \A i \in 0..(token.copy_count - 1) :
      decomp_data[token.before + i + 1] =
        decomp_data[token.before + i + 1 - token.lookback_distance]

\* C7: a back-reference whose copy length would take the output past the
\* declared size fails with CopyingPastEnd and returns nothing.
Yaz0CopyPastEndFails ==
  (token.kind = "Copy" /\ token.form # "none"
     /\ token.before + FormatCopyLength > decomp_size) =>
    (result = "CopyingPastEnd" /\ ~output.returned)

\* C8 as claimed: every back-reference whose lookback distance is greater
\* than the bytes produced fails with CopyingFromBeforeStart.
Yaz0LookbackPastStartAlwaysFails ==
  (token.kind = "Copy" /\ token.form # "none"
     /\ token.lookback_distance > token.before) =>
    result = "CopyingFromBeforeStart"

\* C8 amended: a back-reference that passed the copy-past-end check fails
\* with CopyingFromBeforeStart when its lookback distance is greater than the
\* bytes produced; a distance equal to the bytes produced is accepted and
\* copies from output position 0.
Yaz0LookbackChecked ==
  (token.kind = "Copy" /\ token.copy_count >= 0
     /\ token.before + token.copy_count <= decomp_size) =>
    /\ token.lookback_distance > token.before =>
         (result = "CopyingFromBeforeStart" /\ ~output.returned)
    /\ token.lookback_distance <= token.before =>
         /\ result \in {"none", "Ok"}
         /\ token.start = token.before - token.lookback_distance
         /\ Len(decomp_data) = token.before + token.copy_count
    /\ token.lookback_distance = token.before =>
         /\ token.start = 0
         /\ token.copy_count > 0 => decomp_data[token.before + 1] = decomp_data[1]

\* C8 witness: a back-reference that fits the declared size and reaches
\* before the start of the output.
Yaz0LookbackRefused ==
  /\ token.kind = "Copy"
  /\ token.copy_count >= 0
  /\ token.before > 0
  /\ token.before + token.copy_count <= decomp_size
  /\ token.lookback_distance > token.before
  /\ result = "CopyingFromBeforeStart"

\* C9 as claimed: short form, distance from the high nibble of b0 and count
\* from its low nibble.
Yaz0ShortCopyHighNibbleDistance ==
  (token.form = "short" /\ token.copy_count >= 0) =>
    /\ token.lookback_distance =
         ((read_buffer[1] \div 16) * 256 + read_buffer[2]) + 1
    /\ token.copy_count = (read_buffer[1] % 16) + 2

\* C9 amended: short form, lookback distance = ((low nibble of b0) << 8 | b1)
\* + 1 and copy length = (high nibble of b0) + 2.
Yaz0ShortCopyFields ==
  (token.form = "short") =>
    /\ read_buffer[1] \div 16 # 0
    /\ token.lookback_distance =
         ((read_buffer[1] % 16) * 256 + read_buffer[2]) + 1
    /\ token.copy_count = (read_buffer[1] \div 16) + 2

\* C9 witness: an accepted short-form back-reference whose two nibbles differ.
Yaz0ShortCopyAccepted ==
  /\ token.form = "short"
  /\ read_buffer[1] \div 16 # read_buffer[1] % 16
  /\ token.start >= 0
  /\ result = "none"

\* C10: long form, distance from the low nibble of b0 and b1, copy length
\* b2 + 18 for every b2.
Yaz0LongCopyFields ==
  (token.form = "long") =>
    /\ token.lookback_distance =
         ((read_buffer[1] % 16) * 256 + read_buffer[2]) + 1
    /\ token.copy_count = read_buffer[3] + 18

\* The top bit of a group register.
TopBit(v) == (v \div 128) % 2

\* One step taken inside the loop of decompress, in terms of the input
\* consumed and the group register before and after it.
Yaz0TokenStep ==
  pc = "loop" =>
    IF ~(Len(decomp_data) < decomp_size)
      THEN input' = input /\ groups' = groups
    ELSE IF groups.remaining = 0 /\ Len(input') = Len(input)
      THEN result' = "Io" /\ groups' = groups /\ decomp_data' = decomp_data
    ELSE
      LET refill == groups.remaining = 0
          reg == IF refill THEN input'[Len(input) + 1] ELSE groups.value
          left == IF refill THEN 8 ELSE groups.remaining
          at == Len(input) + (IF refill THEN 1 ELSE 0)
          operand == Len(input') - at
      IN /\ SubSeq(input', 1, Len(input)) = input
         /\ groups' = [value |-> (reg * 2) % 256, remaining |-> left - 1]
         /\ IF TopBit(reg) = 1
              THEN \/ /\ operand = 1
                      /\ decomp_data' = Append(decomp_data, input'[at + 1])
                   \/ /\ operand = 0
                      /\ result' = "Io"
                      /\ decomp_data' = decomp_data
              ELSE /\ token'.kind = "Copy"
                   /\ operand \in {0, 2, 3}
                   /\ operand = 0 => result' = "Io"

\* Group byte 0xFF, then 'A' 'B' 'C' 'D', with declared size 4.
Yaz0AllLiteralGroup ==
  (pc = "done" /\ decomp_size = 4 /\ input = <<255, 65, 66, 67, 68>>) =>
    /\ result = "Ok"
    /\ output = [returned |-> TRUE, bytes |-> <<65, 66, 67, 68>>]

=============================================================================
